---- MODULE Spec2Model ----
(***************************************************************************)
(* Client activation and data-synchronisation gate of math-worksheet-vue.  *)
(*                                                                         *)
(* The repository holds five iterations of the same single-file component. *)
(* A session runs exactly one of them; `variant` says which:               *)
(*   "App" = src/src/App.vue        (Start button, quizStarted latch)      *)
(*   "P0"  = src/unnamed/part_000   (any interaction or a timer unlocks)   *)
(*   "P1"  = src/unnamed/part_001   (strict interaction accumulator)       *)
(*   "P2"  = src/unnamed/part_002   (no gate, fetches on mount)            *)
(*   "P3"  = src/unnamed/part_003   (Start button, fallback dataset)       *)
(*                                                                         *)
(* A session is one page load: reloadPage() starts a new session in Init.  *)
(* JavaScript is single-threaded: every action below is one run-to-        *)
(* completion step, i.e. a handler from its entry to its first await, or   *)
(* the continuation that runs when an awaited request settles.             *)
(***************************************************************************)
EXTENDS Integers, Sequences, FiniteSets, TLC

(***************************************************************************)
(* Bounds of the model                                                     *)
(***************************************************************************)
\* number of questions the live backend returns
NumQ == 2
\* how many clock ticks (of TickMs each) a session lasts
MaxTicks == 2
\* how many submissions, and how many manual refreshes, may be in flight
MaxInflight == 2
\* cap of the interaction accumulator's event counter
MaxInteractions == 4

(***************************************************************************)
(* Program constants                                                       *)
(***************************************************************************)
RATE_LIMIT_MS == 10000
MIN_NAME_LEN == 2
MAX_NAME_LEN == 50
MIN_INTERACTIONS == 3
SAFETY_TIMEOUT_MS == 5000
VISIBILITY_DELAY_P0_MS == 1000
SERVER_ERROR_STATUS == 500

\* granularity of the model's clock, and Date.now() at page load (any value
\* of at least RATE_LIMIT_MS behaves alike, lastApiCall starting at 0)
TickMs == SAFETY_TIMEOUT_MS
StartNow == 2 * RATE_LIMIT_MS

Variants == {"App", "P0", "P1", "P2", "P3"}

(***************************************************************************)
(* Strings the code inspects are sequences of characters.                  *)
(***************************************************************************)
Rep(c, n) == [i \in 1..n |-> c]

\* String.prototype.toLowerCase, on the letters of the Latin alphabet
UpperLetters ==
    <<"A", "B", "C", "D", "E", "F", "G", "H", "I", "J", "K", "L", "M",
       "N", "O", "P", "Q", "R", "S", "T", "U", "V", "W", "X", "Y", "Z">>
LowerLetters ==
    <<"a", "b", "c", "d", "e", "f", "g", "h", "i", "j", "k", "l", "m",
       "n", "o", "p", "q", "r", "s", "t", "u", "v", "w", "x", "y", "z">>
LowerChar(c) ==
    IF \E i \in 1..Len(UpperLetters) : UpperLetters[i] = c
    THEN LowerLetters[CHOOSE i \in 1..Len(UpperLetters) : UpperLetters[i] = c]
    ELSE c
toLowerCase(str) == [i \in 1..Len(str) |-> LowerChar(str[i])]

\* String.prototype.includes
includes(str, pat) ==
    \E i \in 1..(Len(str) - Len(pat) + 1) : SubSeq(str, i, i + Len(pat) - 1) = pat

IsSpace(c) == c = " "
RECURSIVE trimStart(_)
trimStart(str) ==
    IF str # <<>> /\ IsSpace(Head(str)) THEN trimStart(Tail(str)) ELSE str
RECURSIVE trimEnd(_)
trimEnd(str) ==
    IF str # <<>> /\ IsSpace(str[Len(str)])
    THEN trimEnd(SubSeq(str, 1, Len(str) - 1)) ELSE str
\* String.prototype.trim
trim(str) == trimEnd(trimStart(str))

(***************************************************************************)
(* The browser environment: what navigator and window expose.              *)
(***************************************************************************)
UA_Mozilla  == <<"M", "o", "z">>
UA_Googlebot == <<"G", "o", "o", "g", "l", "e", "b", "o", "t">>
UA_Headless == <<"H", "e", "a", "d", "l", "e", "s", "s", "C">>
UA_Selenium == <<"s", "e", "l", "e", "n", "i", "u", "m">>
UA_Crawler  == <<"C", "r", "a", "w", "l", "e", "r">>
UA_Spider   == <<"S", "P", "I", "D", "E", "R">>
UA_Scraper  == <<"x", "s", "c", "r", "a", "p", "e", "r">>

Env(ua, wd, cp, ph, vp) ==
    [ua |-> ua, webdriver |-> wd, callPhantom |-> cp, _phantom |-> ph,
     viewport |-> vp]

\* webdriver is "undefined" (old browsers), "false" (every current browser
\* driven by a person) or "true" (automation); viewport says whether
\* window.innerHeight and window.innerWidth are both non-zero.
Environments ==
    { Env(UA_Mozilla,   "undefined", FALSE, FALSE, TRUE),
      Env(UA_Mozilla,   "false",     FALSE, FALSE, TRUE),
      Env(UA_Mozilla,   "undefined", FALSE, FALSE, FALSE),
      Env(UA_Googlebot, "false",     FALSE, FALSE, TRUE),
      Env(UA_Headless,  "undefined", FALSE, FALSE, TRUE),
      Env(UA_Selenium,  "undefined", FALSE, FALSE, TRUE),
      Env(UA_Crawler,   "undefined", FALSE, FALSE, TRUE),
      Env(UA_Spider,    "undefined", FALSE, FALSE, TRUE),
      Env(UA_Scraper,   "undefined", FALSE, FALSE, TRUE),
      Env(UA_Mozilla,   "true",      FALSE, FALSE, TRUE),
      Env(UA_Mozilla,   "undefined", TRUE,  FALSE, TRUE),
      Env(UA_Mozilla,   "false",     FALSE, TRUE,  TRUE) }

PAT_bot      == <<"b", "o", "t">>
PAT_crawler  == <<"c", "r", "a", "w", "l", "e", "r">>
PAT_spider   == <<"s", "p", "i", "d", "e", "r">>
PAT_scraper  == <<"s", "c", "r", "a", "p", "e", "r">>
PAT_headless == <<"h", "e", "a", "d", "l", "e", "s", "s">>
PAT_phantom  == <<"p", "h", "a", "n", "t", "o", "m">>
PAT_selenium == <<"s", "e", "l", "e", "n", "i", "u", "m">>
botPatterns  == {PAT_bot, PAT_crawler, PAT_spider, PAT_scraper, PAT_headless}

\* isBot without the PhantomJS markers: a faulty variant the properties
\* must tell from the code
isBot_NoPhantom(e) ==
    LET ua == toLowerCase(e.ua) IN
    \/ \E pattern \in botPatterns : includes(ua, pattern)
    \/ e.webdriver = "true"

isBot_App(e) ==
    LET ua == toLowerCase(e.ua) IN
    \/ includes(ua, PAT_bot)
    \/ includes(ua, PAT_crawler)
    \/ includes(ua, PAT_spider)
    \/ includes(ua, PAT_scraper)
    \/ includes(ua, PAT_headless)
    \/ e.webdriver = "true"
    \/ e.callPhantom
    \/ e._phantom

isBot_P1(e) ==
    LET ua == toLowerCase(e.ua) IN
    \/ includes(ua, PAT_bot)
    \/ includes(ua, PAT_crawler)
    \/ includes(ua, PAT_spider)
    \/ includes(ua, PAT_scraper)
    \/ includes(ua, PAT_headless)
    \/ e.webdriver # "undefined"
    \/ e.callPhantom
    \/ e._phantom

isBot_P3(e) ==
    LET ua == toLowerCase(e.ua) IN
    \/ \E pattern \in botPatterns : includes(ua, pattern)
    \/ e.webdriver = "true"
    \/ e.callPhantom \/ e._phantom

\* the bot detection onMounted repeats inline in part_001
hasBot_P1(e) ==
    LET userAgent == toLowerCase(e.ua) IN
    \/ includes(userAgent, PAT_bot)
    \/ includes(userAgent, PAT_crawler)
    \/ includes(userAgent, PAT_spider)
    \/ includes(userAgent, PAT_scraper)
    \/ includes(userAgent, PAT_headless)
    \/ includes(userAgent, PAT_phantom)
    \/ includes(userAgent, PAT_selenium)
    \/ e.webdriver # "undefined"
    \/ e.webdriver = "true"
    \/ e.callPhantom
    \/ e._phantom

(***************************************************************************)
(* Data: questions, leaderboards, names, messages                          *)
(***************************************************************************)
\* The backend's questions: ids 1..NumQ stand for 'q1'..  The contract puts
\* no constraint on a choice string: the first question offers the empty
\* string as its second choice.
ServerChoices(i) == IF i = 1 THEN <<"10", "">> ELSE <<"10">>
ServerQuestions == [i \in 1..NumQ |-> [id |-> i, choices |-> ServerChoices(i)]]

FALLBACK_ALL ==
    << [id |-> 1, question |-> "17", correctAnswer |-> "20", choices |-> <<"10", "20", "17">>],
       [id |-> 2, question |-> "75", correctAnswer |-> "80", choices |-> <<"70", "80", "75">>],
       [id |-> 3, question |-> "64", correctAnswer |-> "60", choices |-> <<"64", "70", "60">>],
       [id |-> 4, question |-> "98", correctAnswer |-> "100", choices |-> <<"80", "100", "98">>],
       [id |-> 5, question |-> "94", correctAnswer |-> "90", choices |-> <<"100", "94", "90">>],
       [id |-> 6, question |-> "445", correctAnswer |-> "450", choices |-> <<"450", "440", "500">>],
       [id |-> 7, question |-> "45", correctAnswer |-> "50", choices |-> <<"50", "45", "40">>],
       [id |-> 8, question |-> "19", correctAnswer |-> "20", choices |-> <<"20", "10", "19">>],
       [id |-> 9, question |-> "0", correctAnswer |-> "0", choices |-> <<"10", "1", "0">>],
       [id |-> 10, question |-> "199", correctAnswer |-> "200", choices |-> <<"190", "100", "200">>],
       [id |-> 11, question |-> "165", correctAnswer |-> "170", choices |-> <<"160", "170", "150">>],
       [id |-> 12, question |-> "999", correctAnswer |-> "1000", choices |-> <<"990", "1000", "909">>] >>
\* the model keeps the first NumQ of the bundled questions, and the first
\* choice of each
FALLBACK_QUESTIONS ==
    [i \in 1..NumQ |->
        [id |-> FALLBACK_ALL[i].id, question |-> FALLBACK_ALL[i].question,
         correctAnswer |-> FALLBACK_ALL[i].correctAnswer,
         choices |-> SubSeq(FALLBACK_ALL[i].choices, 1, 1)]]

FALLBACK_HIGH_SCORES ==
    << [name |-> "Alice", score |-> 5], [name |-> "Bob", score |-> 4],
       [name |-> "Charlie", score |-> 3] >>

\* what GET scores may answer, and what a POST's highScores may hold
LB_Live == << [name |-> "Ann", score |-> 1] >>
LB_Post == << [name |-> "Ann", score |-> 1], [name |-> "Me", score |-> 0] >>
\* <<>> = the response has no highScores field, <<lb>> = it holds lb (which
\* may be the empty array: an array is truthy)
PostHighScores == {<<>>, <<LB_Post>>, << <<>> >>}

\* what may be typed (or scripted) into the name field
NameInputs ==
    { <<>>, <<" ">>, Rep("a", MIN_NAME_LEN - 1), <<" ", "a", "b", " ">>,
      Rep("a", MAX_NAME_LEN + 1) }
HoneypotInputs == {<<>>, <<"x">>}

\* message.value: a text and the numbers interpolated into it
Msg(text) == [text |-> text, args |-> <<>>]
NoMessage == Msg("")
M_BackendLoad == Msg("Backend service is unavailable. Please refresh the page or try again later.")
M_Critical    == Msg("Service temporarily unavailable. Please refresh the page to try again.")
M_UnavailSubmit  == Msg("Service is currently unavailable. Please refresh the page and try again.")
M_UnavailRefresh == Msg("Service is currently unavailable. Please refresh the page to try again.")
M_NameMissing == Msg("Please enter your name before submitting.")
M_NameLength  == Msg("Name must be between 2 and 50 characters.")
M_BackendDown == Msg("Backend service is unavailable. Please refresh the page to try again.")
M_SubmitFailed  == Msg("Failed to submit score. Please try again.")
M_RefreshFailed == Msg("Failed to refresh high scores.")
M_Offline == Msg("Running in offline mode with sample questions.")
M_P2_Questions == Msg("Failed to load questions. Please check the server.")
M_P2_Scores    == Msg("Failed to load high scores. Please check the server.")
\* `Please answer all ${total} questions. You've answered ${answered}.`
M_AnswerAll(total, answered) ==
    [text |-> "Please answer all $1 questions. You've answered $2.",
     args |-> <<total, answered>>]
\* `Please complete all questions before submitting. You have answered
\*  ${answered} out of ${total} questions.`
M_P2_AnswerAll(answered, total) ==
    [text |-> "Please complete all questions before submitting. You have answered $1 out of $2 questions.",
     args |-> <<answered, total>>]
M_Server(sc) == [text |-> "server message", args |-> <<sc>>]

\* how a request can fail: axios timeout (error.code ECONNABORTED), an HTTP
\* status of 500 or more, an HTTP 4xx status, no response at all
Failures == {"timeout", "http5xx", "http4xx", "network"}
\* error.response?.status, if there is a response: the statuses on either
\* side of the threshold
errorStatus(f) ==
    CASE f = "http5xx" -> <<SERVER_ERROR_STATUS>>
      [] f = "http4xx" -> <<SERVER_ERROR_STATUS - 1>>
      [] OTHER -> <<>>
\* error.code === 'ECONNABORTED' || error.response?.status >= 500
isBackendDown(f) ==
    \/ f = "timeout"
    \/ errorStatus(f) # <<>> /\ errorStatus(f)[1] >= SERVER_ERROR_STATUS

(***************************************************************************)
(* State                                                                   *)
(***************************************************************************)
VARIABLES
    variant,            \* which iteration of the component this session runs
    env,                \* the browser environment (fixed for the session)
    now,                \* Date.now()
    hidden,             \* document.hidden
    mounted,            \* whether onMounted has run
    questions, userAnswers, userName, honeypot, score, message, highScores,
    isLoading, isSubmitting, dataLoaded, backendAvailable, criticalError,
    userInteracted, hasRealUser, quizStarted,
    lastApiCall,
    interactionCount, hasMouseMoved, hasClicked,
    interactionListeners,   \* event types with a document listener installed
    timers,             \* pending setTimeout callbacks: [kind, due]
    loadQ, loadS,       \* the initial load's two GETs: none/pending/fulfilled/rejected
    loadSData,          \* payload of the load's settled GET scores
    posts,              \* submissions in flight: [name, userAnswers, stage]
    refreshes,          \* manual leaderboard GETs in flight
    mountFetch,         \* part_002's onMounted: none/questions/scores/done
    accConfirmed,       \* history: checkRealUserInteraction called detectUserInteraction
    keySeen,            \* history: a trusted document keydown was counted
    freshReads          \* history: at most this many of the manual GETs in
                        \* flight were issued after the leaderboard of a POST
                        \* response was last installed

envVars == <<variant, env, now, hidden, mounted>>
progVars ==
    <<questions, userAnswers, userName, honeypot, score, message, highScores,
      isLoading, isSubmitting, dataLoaded, backendAvailable, criticalError,
      userInteracted, hasRealUser, quizStarted, lastApiCall,
      interactionCount, hasMouseMoved, hasClicked, interactionListeners, timers>>
netVars == <<loadQ, loadS, loadSData, posts, refreshes, mountFetch>>
histVars == <<accConfirmed, keySeen, freshReads>>
vars == <<envVars, progVars, netVars, histVars>>

\* The component's state as one value, so that a handler is a function from
\* the state before it to the state after it, and a handler that calls
\* another one composes the two.
Cur ==
    [questions |-> questions, userAnswers |-> userAnswers, userName |-> userName,
     honeypot |-> honeypot, score |-> score, message |-> message,
     highScores |-> highScores, isLoading |-> isLoading,
     isSubmitting |-> isSubmitting, dataLoaded |-> dataLoaded,
     backendAvailable |-> backendAvailable, criticalError |-> criticalError,
     userInteracted |-> userInteracted, hasRealUser |-> hasRealUser,
     quizStarted |-> quizStarted, lastApiCall |-> lastApiCall,
     interactionCount |-> interactionCount, hasMouseMoved |-> hasMouseMoved,
     hasClicked |-> hasClicked, interactionListeners |-> interactionListeners,
     timers |-> timers, loadQ |-> loadQ, loadS |-> loadS, loadSData |-> loadSData,
     posts |-> posts, refreshes |-> refreshes, mountFetch |-> mountFetch,
     accConfirmed |-> accConfirmed, keySeen |-> keySeen,
     freshReads |-> freshReads]

Install(s) ==
    /\ questions' = s.questions          /\ userAnswers' = s.userAnswers
    /\ userName' = s.userName            /\ honeypot' = s.honeypot
    /\ score' = s.score                  /\ message' = s.message
    /\ highScores' = s.highScores        /\ isLoading' = s.isLoading
    /\ isSubmitting' = s.isSubmitting    /\ dataLoaded' = s.dataLoaded
    /\ backendAvailable' = s.backendAvailable
    /\ criticalError' = s.criticalError  /\ userInteracted' = s.userInteracted
    /\ hasRealUser' = s.hasRealUser      /\ quizStarted' = s.quizStarted
    /\ lastApiCall' = s.lastApiCall
    /\ interactionCount' = s.interactionCount
    /\ hasMouseMoved' = s.hasMouseMoved  /\ hasClicked' = s.hasClicked
    /\ interactionListeners' = s.interactionListeners
    /\ timers' = s.timers
    /\ loadQ' = s.loadQ /\ loadS' = s.loadS /\ loadSData' = s.loadSData
    /\ posts' = s.posts /\ refreshes' = s.refreshes /\ mountFetch' = s.mountFetch
    /\ accConfirmed' = s.accConfirmed /\ keySeen' = s.keySeen
    /\ freshReads' = IF s.refreshes > refreshes THEN s.freshReads + 1
                     ELSE IF s.freshReads > s.refreshes THEN s.refreshes
                     ELSE s.freshReads

\* score.value: <<>> is null, <<n>> the number n
NullScore == <<>>
\* userAnswers.value = {}
NoAnswers == <<>>
\* Object.keys(userAnswers.value).length
answeredCount(answers) == Cardinality(DOMAIN answers)
\* an assignment keyed past the question's own id: a faulty setAnswer
setAnswer_WrongKey(answers, id, choice) ==
    [k \in (DOMAIN answers) \cup {id + 1} |->
        IF k = id + 1 THEN choice ELSE answers[k]]

\* an assignment that replaces the whole map: a faulty setAnswer
setAnswer_Replaces(answers, id, choice) == [k \in {id} |-> choice]

\* an assignment that keeps an answer already given: a faulty setAnswer
setAnswer_KeepsFirst(answers, id, choice) ==
    [k \in (DOMAIN answers) \cup {id} |->
        IF k \in DOMAIN answers THEN answers[k] ELSE choice]

\* userAnswers[id] = choice
setAnswer(answers, id, choice) ==
    [k \in (DOMAIN answers) \cup {id} |-> IF k = id THEN choice ELSE answers[k]]

\* the component right after construction: the refs' initial values
InitProgram ==
    /\ now = StartNow
    /\ mounted = FALSE
    /\ questions = <<>> /\ userAnswers = NoAnswers /\ userName = <<>>
    /\ honeypot = <<>> /\ score = NullScore /\ message = NoMessage
    /\ highScores = <<>>
    /\ isLoading = FALSE /\ isSubmitting = FALSE /\ dataLoaded = FALSE
    /\ backendAvailable = TRUE /\ criticalError = FALSE
    /\ userInteracted = FALSE /\ hasRealUser = FALSE /\ quizStarted = FALSE
    /\ lastApiCall = 0
    /\ interactionCount = 0 /\ hasMouseMoved = FALSE /\ hasClicked = FALSE
    /\ interactionListeners = {} /\ timers = {}
    /\ loadQ = "none" /\ loadS = "none" /\ loadSData = <<>>
    /\ posts = <<>> /\ refreshes = 0 /\ mountFetch = "none"
    /\ accConfirmed = FALSE /\ keySeen = FALSE /\ freshReads = 0

(***************************************************************************)
(* Handlers, as functions of the component's state s.  `env` and `now` are *)
(* read where the code reads navigator/window and Date.now().              *)
(***************************************************************************)

\* isLoading.value = true, then both GETs are handed to Promise.allSettled
startLoad(s) ==
    [s EXCEPT !.isLoading = TRUE, !.loadQ = "pending", !.loadS = "pending"]

\* now - lastApiCall < 10000
tooSoon(s) == now - s.lastApiCall < RATE_LIMIT_MS

\* a faulty removeInteractionListeners: the listeners stay attached
removeInteractionListeners_Keeps(s) == s

removeInteractionListeners(s) == [s EXCEPT !.interactionListeners = {}]

\* axios.post(API_URL_SCORES, { name, userAnswers }): the body is serialised
\* before any other handler runs
issuePost(s, name) ==
    [s EXCEPT !.posts = Append(@, [name |-> name, userAnswers |-> s.userAnswers,
                                   stage |-> "post"])]

\* trimmedName.length < 2 || trimmedName.length > 50
nameLengthBad(trimmedName) ==
    Len(trimmedName) < MIN_NAME_LEN \/ Len(trimmedName) > MAX_NAME_LEN

\* the completeness test passing as soon as one question is answered: a
\* faulty variant
incomplete_NoneAnswered(s) == answeredCount(s.userAnswers) = 0 /\ Len(s.questions) > 0

\* answeredCount < questions.value.length
incomplete(s) == answeredCount(s.userAnswers) < Len(s.questions)

\* the checks with the name looked at before the backend: a faulty variant
submitChecked_NameFirst(s) ==
    IF trim(s.userName) = <<>> THEN [s EXCEPT !.message = M_NameMissing]
    ELSE IF nameLengthBad(trim(s.userName)) THEN [s EXCEPT !.message = M_NameLength]
    ELSE IF ~s.backendAvailable THEN [s EXCEPT !.message = M_UnavailSubmit]
    ELSE IF incomplete(s)
         THEN [s EXCEPT !.message =
                   M_AnswerAll(Len(s.questions), answeredCount(s.userAnswers))]
    ELSE issuePost([s EXCEPT !.isSubmitting = TRUE], trim(s.userName))

\* the checks with the name posted as typed: a faulty variant
submitChecked_Untrimmed(s) ==
    IF ~s.backendAvailable THEN [s EXCEPT !.message = M_UnavailSubmit]
    ELSE IF trim(s.userName) = <<>> THEN [s EXCEPT !.message = M_NameMissing]
    ELSE IF nameLengthBad(trim(s.userName)) THEN [s EXCEPT !.message = M_NameLength]
    ELSE IF incomplete(s)
         THEN [s EXCEPT !.message =
                   M_AnswerAll(Len(s.questions), answeredCount(s.userAnswers))]
    ELSE issuePost([s EXCEPT !.isSubmitting = TRUE], s.userName)

\* the checks with one more, on the answers' values: a variant that does
\* what the code does not
submitChecked_RejectEmpty(s) ==
    IF ~s.backendAvailable THEN [s EXCEPT !.message = M_UnavailSubmit]
    ELSE IF trim(s.userName) = <<>> THEN [s EXCEPT !.message = M_NameMissing]
    ELSE IF nameLengthBad(trim(s.userName)) THEN [s EXCEPT !.message = M_NameLength]
    ELSE IF incomplete(s) \/ \E id \in DOMAIN s.userAnswers : s.userAnswers[id] = ""
         THEN [s EXCEPT !.message =
                   M_AnswerAll(Len(s.questions), answeredCount(s.userAnswers))]
    ELSE issuePost([s EXCEPT !.isSubmitting = TRUE], trim(s.userName))

\* The checks after the gate, and the POST: the same text in App.vue,
\* part_000 (90-120) and part_001 (132-162).
submitChecked(s) ==
    IF ~s.backendAvailable THEN [s EXCEPT !.message = M_UnavailSubmit]
    ELSE IF trim(s.userName) = <<>> THEN [s EXCEPT !.message = M_NameMissing]
    ELSE IF nameLengthBad(trim(s.userName)) THEN [s EXCEPT !.message = M_NameLength]
    ELSE IF incomplete(s)
         THEN [s EXCEPT !.message =
                   M_AnswerAll(Len(s.questions), answeredCount(s.userAnswers))]
    ELSE issuePost([s EXCEPT !.isSubmitting = TRUE], trim(s.userName))

\* a faulty refreshChecked: a leaderboard that is already loaded is served
\* again and no GET is issued
refreshChecked_Cached(s) ==
    IF ~s.backendAvailable THEN [s EXCEPT !.message = M_UnavailRefresh]
    ELSE IF s.dataLoaded /\ s.highScores # <<>> THEN s
    ELSE [s EXCEPT !.refreshes = @ + 1]

\* a faulty refreshChecked: the GET is subject to the load's rate limit
refreshChecked_RateLimited(s) ==
    IF ~s.backendAvailable THEN [s EXCEPT !.message = M_UnavailRefresh]
    ELSE IF tooSoon(s) THEN s
    ELSE [s EXCEPT !.refreshes = @ + 1]

\* !backendAvailable: message and return; otherwise the GET is issued
refreshChecked(s) ==
    IF ~s.backendAvailable THEN [s EXCEPT !.message = M_UnavailRefresh]
    ELSE [s EXCEPT !.refreshes = @ + 1]

\* resetWorksheet that also drops the loaded questions: a faulty variant
resetWorksheet_DropsQuestions(s) ==
    [s EXCEPT !.userName = <<>>, !.score = NullScore, !.message = NoMessage,
              !.userAnswers = NoAnswers, !.questions = <<>>]

\* resetWorksheet that also closes the gate: a faulty variant
resetWorksheet_Relock(s) ==
    [s EXCEPT !.userName = <<>>, !.score = NullScore, !.message = NoMessage,
              !.userAnswers = NoAnswers, !.hasRealUser = FALSE,
              !.quizStarted = FALSE]

resetWorksheet(s) ==
    [s EXCEPT !.userName = <<>>, !.score = NullScore, !.message = NoMessage,
              !.userAnswers = NoAnswers]

(* ------------------------------ App.vue ------------------------------- *)
\* loadInitialData without its dataLoaded / isLoading check: a faulty variant
loadInitialData_Repeats(s) ==
    IF ~s.quizStarted THEN s
    ELSE IF isBot_App(env) THEN s
    ELSE IF ~s.hasRealUser THEN s
    ELSE IF tooSoon(s) THEN s
    ELSE startLoad([s EXCEPT !.lastApiCall = now])

loadInitialData_App(s) ==
    IF s.dataLoaded \/ s.isLoading THEN s
    ELSE IF ~s.quizStarted THEN s
    ELSE IF isBot_App(env) THEN s
    ELSE IF ~s.hasRealUser THEN s
    ELSE IF tooSoon(s) THEN s
    ELSE startLoad([s EXCEPT !.lastApiCall = now])

\* activateApp without the honeypot check: a faulty variant
activateApp_NoHoneypot(s) ==
    IF isBot_App(env) THEN s
    ELSE loadInitialData_App([s EXCEPT !.hasRealUser = TRUE, !.quizStarted = TRUE])

activateApp_App(s) ==
    IF isBot_App(env) THEN s
    ELSE IF s.honeypot # <<>> THEN s
    ELSE loadInitialData_App([s EXCEPT !.hasRealUser = TRUE, !.quizStarted = TRUE])

\* calculateScore without its isSubmitting check: a faulty variant
calculateScore_Reentrant(s) ==
    IF ~s.quizStarted THEN s
    ELSE IF isBot_App(env) THEN s
    ELSE IF s.honeypot # <<>> THEN s
    ELSE IF ~s.hasRealUser THEN s
    ELSE submitChecked(s)

\* calculateScore without its gate checks: a faulty variant
calculateScore_NoGate(s) ==
    IF s.isSubmitting THEN s ELSE submitChecked(s)

calculateScore_App(s) ==
    IF s.isSubmitting THEN s
    ELSE IF ~s.quizStarted THEN s
    ELSE IF isBot_App(env) THEN s
    ELSE IF s.honeypot # <<>> THEN s
    ELSE IF ~s.hasRealUser THEN s
    ELSE submitChecked(s)

refreshHighScores_App(s) ==
    IF ~s.quizStarted THEN s
    ELSE IF isBot_App(env) THEN s
    ELSE IF ~s.hasRealUser THEN s
    ELSE refreshChecked(s)

(* ------------------------------ part_000 ------------------------------ *)
loadInitialData_P0(s) ==
    IF s.dataLoaded \/ s.isLoading THEN s
    ELSE IF ~s.hasRealUser THEN s
    ELSE startLoad(s)

detectUserInteraction_P0(s) ==
    IF s.hasRealUser THEN s
    ELSE removeInteractionListeners(
            loadInitialData_P0([s EXCEPT !.hasRealUser = TRUE,
                                         !.userInteracted = TRUE]))

calculateScore_P0(s) ==
    IF s.isSubmitting THEN s
    ELSE submitChecked(IF ~s.hasRealUser THEN detectUserInteraction_P0(s) ELSE s)

refreshHighScores_P0(s) ==
    refreshChecked(IF ~s.hasRealUser THEN detectUserInteraction_P0(s) ELSE s)

(* ------------------------------ part_001 ------------------------------ *)
loadInitialData_P1(s) ==
    IF s.dataLoaded \/ s.isLoading THEN s
    ELSE IF isBot_P1(env) THEN s
    ELSE IF ~s.hasRealUser THEN s
    ELSE IF tooSoon(s) THEN s
    ELSE startLoad([s EXCEPT !.lastApiCall = now])

detectUserInteraction_P1(s) ==
    IF s.hasRealUser THEN s
    ELSE IF isBot_P1(env) THEN s
    ELSE IF s.honeypot # <<>> THEN s
    ELSE IF ~env.viewport THEN s
    ELSE removeInteractionListeners(
            loadInitialData_P1([s EXCEPT !.hasRealUser = TRUE,
                                         !.userInteracted = TRUE]))

\* the confirmation test without the mouse movement: a faulty variant
isRealUser_NoMove(moved, clicked, eventType, count) ==
    (clicked \/ eventType = "keydown") /\ count >= MIN_INTERACTIONS

\* hasMouseMoved && (hasClicked || eventType === 'keydown') && interactionCount >= 3
isRealUser_P1(moved, clicked, eventType, count) ==
    moved /\ (clicked \/ eventType = "keydown") /\ count >= MIN_INTERACTIONS

checkRealUserInteraction_P1(s, eventType) ==
    LET s1 == [s EXCEPT !.interactionCount = @ + 1,
                        !.hasMouseMoved = IF eventType = "mousemove" THEN TRUE ELSE @,
                        !.hasClicked = IF eventType = "click" THEN TRUE ELSE @,
                        !.keySeen = IF eventType = "keydown" THEN TRUE ELSE @]
    IN IF isRealUser_P1(s1.hasMouseMoved, s1.hasClicked, eventType, s1.interactionCount)
       THEN detectUserInteraction_P1([s1 EXCEPT !.accConfirmed = TRUE])
       ELSE s1

calculateScore_P1(s) ==
    IF s.isSubmitting THEN s
    ELSE IF isBot_P1(env) THEN s
    ELSE IF s.honeypot # <<>> THEN s
    ELSE IF ~s.hasRealUser THEN s
    ELSE submitChecked(s)

refreshHighScores_P1(s) ==
    IF isBot_P1(env) THEN s
    ELSE IF ~s.hasRealUser THEN s
    ELSE refreshChecked(s)

(* ------------------------------ part_002 ------------------------------ *)
calculateScore_P2(s) ==
    IF s.userName = <<>> THEN [s EXCEPT !.message = M_NameMissing]
    ELSE IF incomplete(s)
         THEN [s EXCEPT !.message =
                   M_P2_AnswerAll(answeredCount(s.userAnswers), Len(s.questions))]
    ELSE issuePost(s, s.userName)

(* ------------------------------ part_003 ------------------------------ *)
\* reads the clock and, when not limited, moves lastApiCall
isRateLimited_P3(s) == tooSoon(s)

loadInitialData_P3(s) ==
    IF s.dataLoaded \/ s.isLoading THEN s
    ELSE IF ~s.quizStarted THEN s
    ELSE IF isBot_P3(env) \/ ~s.hasRealUser THEN s
    ELSE IF isRateLimited_P3(s) THEN s
    ELSE startLoad([s EXCEPT !.lastApiCall = now])

activateApp_P3(s) ==
    IF isBot_P3(env) THEN s
    ELSE IF s.honeypot # <<>> THEN s
    ELSE loadInitialData_P3([s EXCEPT !.hasRealUser = TRUE, !.quizStarted = TRUE])

calculateScore_P3(s) ==
    IF s.isSubmitting THEN s
    ELSE IF ~s.quizStarted \/ isBot_P3(env) \/ s.honeypot # <<>> \/ ~s.hasRealUser THEN s
    ELSE IF ~s.backendAvailable THEN [s EXCEPT !.message = M_UnavailSubmit]
    ELSE LET trimmedName == trim(s.userName) IN
         IF trimmedName = <<>> THEN [s EXCEPT !.message = M_NameMissing]
         ELSE IF nameLengthBad(trimmedName) THEN [s EXCEPT !.message = M_NameLength]
         ELSE IF incomplete(s)
              THEN [s EXCEPT !.message =
                        M_AnswerAll(Len(s.questions), answeredCount(s.userAnswers))]
         ELSE issuePost([s EXCEPT !.isSubmitting = TRUE], trimmedName)

refreshHighScores_P3(s) ==
    IF ~s.quizStarted \/ isBot_P3(env) \/ ~s.hasRealUser \/ ~s.backendAvailable THEN s
    ELSE [s EXCEPT !.refreshes = @ + 1]

(* ----------------------- the running variant's ------------------------ *)
calculateScore(s) ==
    CASE variant = "App" -> calculateScore_App(s)
      [] variant = "P0" -> calculateScore_P0(s)
      [] variant = "P1" -> calculateScore_P1(s)
      [] variant = "P2" -> calculateScore_P2(s)
      [] variant = "P3" -> calculateScore_P3(s)

\* part_002 has no loadInitialData and no refreshHighScores
loadInitialData(s) ==
    CASE variant = "App" -> loadInitialData_App(s)
      [] variant = "P0" -> loadInitialData_P0(s)
      [] variant = "P1" -> loadInitialData_P1(s)
      [] variant = "P3" -> loadInitialData_P3(s)

refreshHighScores(s) ==
    CASE variant = "App" -> refreshHighScores_App(s)
      [] variant = "P0" -> refreshHighScores_P0(s)
      [] variant = "P1" -> refreshHighScores_P1(s)
      [] variant = "P3" -> refreshHighScores_P3(s)

\* what the Start Quiz button runs
startQuiz(s) ==
    CASE variant = "App" -> activateApp_App(s)
      [] variant = "P0" -> detectUserInteraction_P0(s)
      [] variant = "P1" -> detectUserInteraction_P1(s)
      [] variant = "P3" -> activateApp_P3(s)

\* detectUserInteraction, in the two variants that have it
detectUserInteraction(s) ==
    CASE variant = "P0" -> detectUserInteraction_P0(s)
      [] variant = "P1" -> detectUserInteraction_P1(s)

(***************************************************************************)
(* Continuations: what runs when an awaited request settles.               *)
(***************************************************************************)
\* a request that stays in flight after it settled, as one that lost a
\* race against a timer and was never cancelled would: a faulty RemoveAt
RemoveAt_Abandons(seq, i) == seq

RemoveAt(seq, i) == SubSeq(seq, 1, i - 1) \o SubSeq(seq, i + 1, Len(seq))

\* after Promise.allSettled: the same text in App.vue, part_000 (47-78) and
\* part_001 (76-107)
\* loadSettled_App that installs nothing unless both reads succeeded: a
\* faulty variant
loadSettled_App_AllOrNothing(s, qOK, sOK, data) ==
    LET s1 == IF qOK /\ sOK
              THEN [s EXCEPT !.questions = ServerQuestions, !.backendAvailable = TRUE,
                             !.highScores = data]
              ELSE IF qOK THEN [s EXCEPT !.highScores = <<>>]
              ELSE [s EXCEPT !.backendAvailable = FALSE, !.criticalError = TRUE,
                             !.message = M_BackendLoad, !.highScores = <<>>]
    IN [s1 EXCEPT !.dataLoaded = TRUE, !.isLoading = FALSE]

\* loadSettled_App that marks the data as loaded only when the questions
\* arrived, so that a failed load is tried again: a faulty variant
loadSettled_App_RetryOnFailure(s, qOK, sOK, data) ==
    LET s1 == IF qOK
              THEN [s EXCEPT !.questions = ServerQuestions, !.backendAvailable = TRUE]
              ELSE [s EXCEPT !.backendAvailable = FALSE, !.criticalError = TRUE,
                             !.message = M_BackendLoad]
        s2 == IF sOK THEN [s1 EXCEPT !.highScores = data]
                     ELSE [s1 EXCEPT !.highScores = <<>>]
    IN [s2 EXCEPT !.dataLoaded = qOK, !.isLoading = FALSE]

\* loadSettled_App that takes a failed leaderboard read for a backend
\* failure: a faulty variant
loadSettled_App_ScoresFatal(s, qOK, sOK, data) ==
    LET s1 == IF qOK
              THEN [s EXCEPT !.questions = ServerQuestions, !.backendAvailable = TRUE]
              ELSE [s EXCEPT !.backendAvailable = FALSE, !.criticalError = TRUE,
                             !.message = M_BackendLoad]
        s2 == IF sOK THEN [s1 EXCEPT !.highScores = data]
                     ELSE [s1 EXCEPT !.highScores = <<>>, !.backendAvailable = FALSE,
                                     !.criticalError = TRUE]
    IN [s2 EXCEPT !.dataLoaded = TRUE, !.isLoading = FALSE]

loadSettled_App(s, qOK, sOK, data) ==
    LET s1 == IF qOK
              THEN [s EXCEPT !.questions = ServerQuestions, !.backendAvailable = TRUE]
              ELSE [s EXCEPT !.backendAvailable = FALSE, !.criticalError = TRUE,
                             !.message = M_BackendLoad]
        s2 == IF sOK THEN [s1 EXCEPT !.highScores = data]
                     ELSE [s1 EXCEPT !.highScores = <<>>]
    IN [s2 EXCEPT !.dataLoaded = TRUE, !.isLoading = FALSE]

\* loadSettled_P3 that does not install the bundled questions: a faulty
\* variant
loadSettled_P3_NoFallback(s, qOK, sOK, data) ==
    LET s0 == [s EXCEPT !.backendAvailable = qOK /\ sOK]
        s1 == IF qOK
              THEN [s0 EXCEPT !.questions = ServerQuestions]
              ELSE [s0 EXCEPT !.message = M_Offline]
        s2 == IF sOK THEN [s1 EXCEPT !.highScores = data]
                     ELSE [s1 EXCEPT !.highScores = FALLBACK_HIGH_SCORES]
    IN [s2 EXCEPT !.dataLoaded = TRUE, !.isLoading = FALSE]

loadSettled_P3(s, qOK, sOK, data) ==
    LET s0 == [s EXCEPT !.backendAvailable = qOK /\ sOK]
        s1 == IF qOK
              THEN [s0 EXCEPT !.questions = ServerQuestions]
              ELSE [s0 EXCEPT !.questions = FALLBACK_QUESTIONS, !.message = M_Offline]
        s2 == IF sOK THEN [s1 EXCEPT !.highScores = data]
                     ELSE [s1 EXCEPT !.highScores = FALLBACK_HIGH_SCORES]
    IN [s2 EXCEPT !.dataLoaded = TRUE, !.isLoading = FALSE]

loadSettled(s, qOK, sOK, data) ==
    IF variant = "P3" THEN loadSettled_P3(s, qOK, sOK, data)
    ELSE loadSettled_App(s, qOK, sOK, data)

\* a faulty submitSucceeded: the name field keeps its text
submitSucceeded_KeepsName(s, sc, hs) ==
    [s EXCEPT !.score = <<sc>>, !.message = M_Server(sc),
              !.highScores = IF hs # <<>> THEN hs[1] ELSE @,
              !.userAnswers = NoAnswers,
              !.isSubmitting = FALSE]

\* a faulty submitSucceeded: the response's highScores are ignored
submitSucceeded_KeepsBoard(s, sc, hs) ==
    [s EXCEPT !.score = <<sc>>, !.message = M_Server(sc),
              !.userAnswers = NoAnswers, !.userName = <<>>,
              !.isSubmitting = FALSE]

\* the try block after the POST resolved, and finally; hs is <<>> when the
\* response has no highScores, <<lb>> when it holds lb
submitSucceeded(s, sc, hs) ==
    [s EXCEPT !.score = <<sc>>, !.message = M_Server(sc),
              !.highScores = IF hs # <<>> THEN hs[1] ELSE @,
              !.userAnswers = NoAnswers, !.userName = <<>>,
              !.isSubmitting = FALSE]

\* a faulty submitFailed: a timeout is taken for a transient failure
submitFailed_TimeoutTransient(s, f) ==
    IF errorStatus(f) # <<>> /\ errorStatus(f)[1] >= SERVER_ERROR_STATUS
    THEN [s EXCEPT !.backendAvailable = FALSE, !.criticalError = TRUE,
                   !.message = M_BackendDown, !.isSubmitting = FALSE]
    ELSE [s EXCEPT !.message = M_SubmitFailed, !.isSubmitting = FALSE]

\* a faulty submitFailed: the form is reset on failure as it is on success
submitFailed_ClearsForm(s, f) ==
    IF isBackendDown(f)
    THEN [s EXCEPT !.backendAvailable = FALSE, !.criticalError = TRUE,
                   !.message = M_BackendDown, !.isSubmitting = FALSE,
                   !.userAnswers = NoAnswers, !.userName = <<>>]
    ELSE [s EXCEPT !.message = M_SubmitFailed, !.isSubmitting = FALSE,
                   !.userAnswers = NoAnswers, !.userName = <<>>]

\* a faulty submitFailed: isSubmitting is reset in the try block only, not
\* in a finally
submitFailed_NoFinally(s, f) ==
    IF isBackendDown(f)
    THEN [s EXCEPT !.backendAvailable = FALSE, !.criticalError = TRUE,
                   !.message = M_BackendDown]
    ELSE [s EXCEPT !.message = M_SubmitFailed]

\* the catch block of calculateScore, and finally
submitFailed(s, f) ==
    IF isBackendDown(f)
    THEN [s EXCEPT !.backendAvailable = FALSE, !.criticalError = TRUE,
                   !.message = M_BackendDown, !.isSubmitting = FALSE]
    ELSE [s EXCEPT !.message = M_SubmitFailed, !.isSubmitting = FALSE]

\* a faulty refreshSucceeded: an answered refresh marks the backend as
\* available again
refreshSucceeded_Revives(s, data) ==
    [s EXCEPT !.highScores = data, !.backendAvailable = TRUE]

refreshSucceeded(s, data) == [s EXCEPT !.highScores = data]

\* the catch block of refreshHighScores
refreshFailed(s, f) ==
    IF isBackendDown(f)
    THEN [s EXCEPT !.backendAvailable = FALSE, !.message = M_BackendDown]
    ELSE [s EXCEPT !.message = M_RefreshFailed]

\* part_002: fetchQuestions and fetchHighScores after their GET settled
fetchQuestionsSettled_P2(s, ok) ==
    IF ok THEN [s EXCEPT !.questions = ServerQuestions]
          ELSE [s EXCEPT !.message = M_P2_Questions]
fetchHighScoresSettled_P2(s, ok, data) ==
    IF ok THEN [s EXCEPT !.highScores = data]
          ELSE [s EXCEPT !.message = M_P2_Scores]

(***************************************************************************)
(* Actions                                                                 *)
(***************************************************************************)
P0_EVENTS == {"click", "keydown", "mousemove", "touchstart", "scroll",
              "mousedown", "mouseup", "touchend", "focus", "blur"}
P1_EVENTS == {"click", "keydown", "mousemove", "mousedown", "touchstart"}
DocEventTypes == P0_EVENTS \cup P1_EVENTS

\* App.vue, part_002 and part_003 install no document listener
ListensToDocument == variant \in {"P0", "P1"}

HasGate == variant # "P2"
HasHoneypot == variant \in {"App", "P1", "P3"}
HasDetect == variant \in {"P0", "P1"}

\* onMounted
Mount ==
    /\ ~mounted
    /\ mounted' = TRUE
    /\ Install(
         CASE variant = "P0" ->
                [Cur EXCEPT !.interactionListeners = P0_EVENTS,
                            !.timers = {[kind |-> "safety", due |-> now + SAFETY_TIMEOUT_MS]}]
           [] variant = "P1" ->
                IF hasBot_P1(env) THEN Cur
                ELSE [Cur EXCEPT !.interactionListeners = P1_EVENTS]
           [] variant = "P2" ->
                [Cur EXCEPT !.mountFetch = "questions"]
           [] OTHER -> Cur)
    /\ UNCHANGED <<variant, env, now, hidden>>

\* time passes
Tick ==
    /\ mounted
    /\ now < StartNow + MaxTicks * TickMs
    /\ now' = now + TickMs
    /\ UNCHANGED <<variant, env, hidden, mounted, progVars, netVars, histVars>>

\* an event of one of the document-level types reaches the document
DocEvent(type, trusted) ==
    /\ mounted /\ ListensToDocument
    /\ type \in interactionListeners
    /\ interactionCount < MaxInteractions
    /\ Install(
         IF variant = "P0"
              THEN detectUserInteraction_P0(
                      [Cur EXCEPT !.interactionListeners = @ \ {type}])
         ELSE IF ~trusted THEN Cur
         ELSE checkRealUserInteraction_P1(Cur, type))
    /\ UNCHANGED envVars

\* part_000's handleVisibilityChange, as the tab is hidden or shown again.
\* (part_001's handler sets a timer whose callback only logs, and nothing
\* else of part_001 reads document.hidden.)
VisibilityChange ==
    /\ mounted /\ variant = "P0"
    /\ hidden' = ~hidden
    /\ Install(
         IF ~hidden' /\ ~hasRealUser
         THEN [Cur EXCEPT !.timers = @ \cup
                 {[kind |-> "visible", due |-> now + VISIBILITY_DELAY_P0_MS]}]
         ELSE Cur)
    /\ UNCHANGED <<variant, env, now, mounted>>

\* a setTimeout callback runs
TimerFire(t) ==
    /\ mounted /\ t \in timers /\ now >= t.due
    /\ LET s == [Cur EXCEPT !.timers = @ \ {t}] IN
       Install(
         CASE t.kind = "safety" ->
                IF ~s.hasRealUser /\ ~hidden THEN detectUserInteraction_P0(s) ELSE s
           [] t.kind = "visible" ->
                IF ~hidden THEN detectUserInteraction_P0(s) ELSE s)
    /\ UNCHANGED envVars

\* the template's conditions on its buttons: a button that is not rendered,
\* or is disabled, takes no click (part_002 puts no condition on its own)
startRendered ==
    CASE variant \in {"App", "P3"} -> ~quizStarted /\ ~isLoading
      [] variant \in {"P0", "P1"} -> ~hasRealUser /\ ~isLoading
      [] variant = "P2" -> FALSE

\* a faulty submitDisabled: the button ignores the backend's availability
submitDisabled_IgnoresBackend ==
    variant # "P2" /\ (isSubmitting \/ isLoading)

\* a faulty submitDisabled: the button stays enabled during the initial load
submitDisabled_IgnoresLoading ==
    variant # "P2" /\ (isSubmitting \/ ~backendAvailable)

submitDisabled ==
    variant # "P2" /\ (isSubmitting \/ isLoading \/ ~backendAvailable)

resetDisabled ==
    variant # "P2" /\ isSubmitting

refreshRendered ==
    variant # "P2" /\ backendAvailable /\ Len(highScores) > 0

refreshDisabled ==
    isLoading

\* click on Start Quiz
StartClick ==
    /\ mounted /\ HasGate /\ startRendered
    /\ Install(startQuiz(Cur))
    /\ UNCHANGED envVars

\* focus of the name field (@focus)
NameFocus ==
    /\ mounted /\ HasDetect
    /\ Install(detectUserInteraction(Cur))
    /\ UNCHANGED envVars

\* input into the name field (v-model, and @input where bound)
NameInput(n) ==
    /\ mounted
    /\ LET s == [Cur EXCEPT !.userName = n] IN
       Install(IF HasDetect THEN detectUserInteraction(s) ELSE s)
    /\ UNCHANGED envVars

\* the hidden field is filled or cleared (v-model)
HoneypotInput(h) ==
    /\ mounted /\ HasHoneypot
    /\ h # honeypot
    /\ Install([Cur EXCEPT !.honeypot = h])
    /\ UNCHANGED envVars

\* the v-if chain that shows the question cards
questionsRendered ==
    CASE variant \in {"App", "P3"} -> quizStarted /\ ~isLoading /\ Len(questions) > 0
      [] variant \in {"P0", "P1"} -> hasRealUser /\ ~isLoading /\ Len(questions) > 0
      [] variant = "P2" -> Len(questions) > 0

\* click on choice c of question i
ChoiceClick(i, c) ==
    /\ mounted /\ questionsRendered
    /\ i \in 1..Len(questions) /\ c \in 1..Len(questions[i].choices)
    /\ LET s == [Cur EXCEPT !.userAnswers =
                   setAnswer(@, questions[i].id, questions[i].choices[c])] IN
       Install(IF HasDetect THEN detectUserInteraction(s) ELSE s)
    /\ UNCHANGED envVars

\* calculateScore is called (Submit Answers)
Submit ==
    /\ mounted /\ ~submitDisabled
    /\ Len(posts) < MaxInflight
    /\ Install(calculateScore(Cur))
    /\ UNCHANGED envVars

\* calculateScore is called by a user who waits for the answer to one
\* submission before sending the next
SubmitIdle ==
    /\ mounted /\ ~submitDisabled
    /\ posts = <<>>
    /\ Install(calculateScore(Cur))
    /\ UNCHANGED envVars

\* resetWorksheet is called (Reset All)
Reset ==
    /\ mounted /\ ~resetDisabled
    /\ Install(resetWorksheet(Cur))
    /\ UNCHANGED envVars

\* refreshHighScores is called (Refresh)
Refresh ==
    /\ mounted /\ HasGate
    /\ refreshRendered /\ ~refreshDisabled
    /\ refreshes < MaxInflight
    /\ Install(refreshHighScores(Cur))
    /\ UNCHANGED envVars

\* loadInitialData is called
Load ==
    /\ mounted /\ HasGate
    /\ Install(loadInitialData(Cur))
    /\ UNCHANGED envVars

\* the notification is dismissed (message = '')
DismissMessage ==
    /\ mounted
    /\ message # NoMessage
    /\ Install([Cur EXCEPT !.message = NoMessage])
    /\ UNCHANGED envVars

\* a faulty LoadRespond: the continuation takes the outcome of the response
\* that arrived last for the outcome of both reads
LoadRespond_LastDecides(which, ok, data) ==
    /\ IF which = "q" THEN loadQ = "pending" /\ data = <<>> ELSE loadS = "pending"
    /\ ok \/ data = <<>>
    /\ LET st == IF ok THEN "fulfilled" ELSE "rejected"
           q  == IF which = "q" THEN st ELSE loadQ
           sc == IF which = "s" THEN st ELSE loadS
           d  == IF which = "s" THEN data ELSE loadSData
       IN Install(
            IF q = "pending" \/ sc = "pending"
            THEN [Cur EXCEPT !.loadQ = q, !.loadS = sc, !.loadSData = d]
            ELSE loadSettled([Cur EXCEPT !.loadQ = "none", !.loadS = "none",
                                         !.loadSData = <<>>],
                             ok, ok, d))
    /\ UNCHANGED envVars

\* a faulty LoadRespond: the leaderboard is installed as soon as its
\* response arrives
LoadRespond_OnArrival(which, ok, data) ==
    /\ IF which = "q" THEN loadQ = "pending" /\ data = <<>> ELSE loadS = "pending"
    /\ ok \/ data = <<>>
    /\ LET st == IF ok THEN "fulfilled" ELSE "rejected"
           q  == IF which = "q" THEN st ELSE loadQ
           sc == IF which = "s" THEN st ELSE loadS
           d  == IF which = "s" THEN data ELSE loadSData
       IN Install(
            IF q = "pending" \/ sc = "pending"
            THEN [Cur EXCEPT !.loadQ = q, !.loadS = sc, !.loadSData = d,
                             !.highScores = IF which = "s" /\ ok THEN data ELSE @]
            ELSE loadSettled([Cur EXCEPT !.loadQ = "none", !.loadS = "none",
                                         !.loadSData = <<>>],
                             q = "fulfilled", sc = "fulfilled", d))
    /\ UNCHANGED envVars

\* one of the initial load's two GETs settles; the continuation runs when
\* both have
LoadRespond(which, ok, data) ==
    /\ IF which = "q" THEN loadQ = "pending" /\ data = <<>> ELSE loadS = "pending"
    /\ ok \/ data = <<>>
    /\ LET st == IF ok THEN "fulfilled" ELSE "rejected"
           q  == IF which = "q" THEN st ELSE loadQ
           sc == IF which = "s" THEN st ELSE loadS
           d  == IF which = "s" THEN data ELSE loadSData
       IN Install(
            IF q = "pending" \/ sc = "pending"
            THEN [Cur EXCEPT !.loadQ = q, !.loadS = sc, !.loadSData = d]
            ELSE loadSettled([Cur EXCEPT !.loadQ = "none", !.loadS = "none",
                                         !.loadSData = <<>>],
                             q = "fulfilled", sc = "fulfilled", d))
    /\ UNCHANGED envVars

\* the POST of submission i is answered
PostSucceed(i, sc, hs) ==
    /\ i \in 1..Len(posts) /\ posts[i].stage = "post"
    /\ IF variant = "P2"
       THEN \* score and message, then await fetchHighScores()
            /\ Install([Cur EXCEPT !.score = <<sc>>, !.message = M_Server(sc),
                                   !.posts[i].stage = "fetch"])
       ELSE Install(submitSucceeded(
                      [Cur EXCEPT !.posts = RemoveAt(@, i),
                                  !.freshReads = IF hs # <<>> THEN 0 ELSE @],
                      sc, hs))
    /\ UNCHANGED envVars

\* the POST of submission i fails
PostFail(i, f) ==
    /\ i \in 1..Len(posts) /\ posts[i].stage = "post"
    /\ LET s == [Cur EXCEPT !.posts = RemoveAt(@, i)] IN
       IF variant = "P2"
       THEN Install([s EXCEPT !.message = M_SubmitFailed])
       ELSE Install(submitFailed(s, f))
    /\ UNCHANGED envVars

\* part_002: the fetchHighScores awaited by calculateScore settles, and the
\* worksheet is reset
PostFetchRespond(i, ok, data) ==
    /\ i \in 1..Len(posts) /\ posts[i].stage = "fetch"
    /\ ok \/ data = <<>>
    /\ LET s == fetchHighScoresSettled_P2([Cur EXCEPT !.posts = RemoveAt(@, i)], ok, data)
       IN Install([s EXCEPT !.userAnswers = NoAnswers])
    /\ UNCHANGED envVars

\* a manual leaderboard GET is answered
RefreshSucceed(data) ==
    /\ refreshes > 0
    /\ Install(refreshSucceeded([Cur EXCEPT !.refreshes = @ - 1], data))
    /\ UNCHANGED envVars

RefreshFail(f) ==
    /\ refreshes > 0
    /\ Install(refreshFailed([Cur EXCEPT !.refreshes = @ - 1], f))
    /\ UNCHANGED envVars

\* part_002's onMounted: await fetchQuestions(); await fetchHighScores()
MountFetchRespond(ok, data) ==
    /\ ok \/ data = <<>>
    /\ \/ /\ mountFetch = "questions" /\ data = <<>>
          /\ Install([fetchQuestionsSettled_P2(Cur, ok)
                        EXCEPT !.mountFetch = "scores"])
       \/ /\ mountFetch = "scores"
          /\ Install([fetchHighScoresSettled_P2(Cur, ok, data)
                        EXCEPT !.mountFetch = "done"])
    /\ UNCHANGED envVars

(***************************************************************************)
(* Specifications.  The component is explored under three profiles of its  *)
(* surroundings, which differ in what the browser, the user and the        *)
(* backend are let to do, never in what the component does:                *)
(*   Spec      every environment, document events, timers and the clock,   *)
(*             the hidden field; one valid name, the first choice of each  *)
(*             question;                                                   *)
(*   SpecForm  the plain environment, the gate opened through the Start    *)
(*             button or the name field; every name, every choice, every   *)
(*             kind of failure, the hidden field; one submission at a      *)
(*             time.                                                       *)
(*   SpecNet   the plain environment; the clock, the load, submissions and *)
(*             manual refreshes with up to MaxInflight of each in flight,  *)
(*             answered in any order with success or any kind of failure;  *)
(*             one valid name, the first choice of each question.          *)
(* SpecNetLive is SpecNet with every request of the load and of the        *)
(* submissions settling in the end.                                        *)
(***************************************************************************)
CleanEnv == Env(UA_Mozilla, "undefined", FALSE, FALSE, TRUE)
BotEnv   == Env(UA_Googlebot, "false", FALSE, FALSE, TRUE)

\* part_000 and part_002 never read navigator or window: they are run in
\* the plain environment and in one bot environment
EnvsOf(v) == IF v \in {"P0", "P2"} THEN {CleanEnv, BotEnv} ELSE Environments

GateNames == {<<"a", "b">>}

Init ==
    /\ variant \in Variants
    /\ env \in EnvsOf(variant)
    /\ hidden \in (IF variant = "P0" THEN BOOLEAN ELSE {FALSE})
    /\ InitProgram

\* T: the values isTrusted takes on the events that reach the document
NextGate(T) ==
    \/ Mount
    \/ Tick
    \/ \E type \in DocEventTypes, trusted \in T : DocEvent(type, trusted)
    \/ VisibilityChange
    \/ \E t \in timers : TimerFire(t)
    \/ StartClick
    \/ NameFocus
    \/ \E n \in GateNames : NameInput(n)
    \/ \E h \in HoneypotInputs : HoneypotInput(h)
    \/ \E i \in 1..Len(questions) : ChoiceClick(i, 1)
    \/ Submit
    \/ Reset
    \/ Refresh
    \/ Load
    \/ \E which \in {"q", "s"}, ok \in BOOLEAN : LoadRespond(which, ok, IF which = "s" /\ ok THEN LB_Live ELSE <<>>)
    \/ \E ok \in BOOLEAN : MountFetchRespond(ok, IF ok /\ mountFetch = "scores" THEN LB_Live ELSE <<>>)

Next == NextGate(BOOLEAN)
Spec == Init /\ [][Next]_vars

\* every event that reaches the document is scripted (isTrusted false)
NextUntrusted == NextGate({FALSE})
SpecUntrusted == Init /\ [][NextUntrusted]_vars

InitForm ==
    /\ variant \in Variants
    /\ env = CleanEnv
    /\ hidden = FALSE
    /\ InitProgram

NextForm ==
    \/ Mount
    \/ StartClick
    \/ \E n \in NameInputs : NameInput(n)
    \/ \E i \in 1..Len(questions), c \in 1..2 : ChoiceClick(i, c)
    \/ \E h \in HoneypotInputs : HoneypotInput(h)
    \/ SubmitIdle
    \/ Reset
    \/ DismissMessage
    \/ \E which \in {"q", "s"}, ok \in BOOLEAN : LoadRespond(which, ok, IF which = "s" /\ ok THEN LB_Live ELSE <<>>)
    \/ \E i \in 1..Len(posts), hs \in PostHighScores : PostSucceed(i, 1, hs)
    \/ \E i \in 1..Len(posts), f \in Failures : PostFail(i, f)
    \/ \E i \in 1..Len(posts), ok \in BOOLEAN : PostFetchRespond(i, ok, IF ok THEN LB_Live ELSE <<>>)
    \/ \E ok \in BOOLEAN : MountFetchRespond(ok, IF ok /\ mountFetch = "scores" THEN LB_Live ELSE <<>>)

SpecForm == InitForm /\ [][NextForm]_vars

InitNet ==
    /\ variant \in Variants
    /\ env = CleanEnv
    /\ hidden = FALSE
    /\ InitProgram

NextNet ==
    \/ Mount
    \/ Tick
    \/ StartClick
    \/ \E n \in GateNames : NameInput(n)
    \/ \E i \in 1..Len(questions) : ChoiceClick(i, 1)
    \/ Submit
    \/ Refresh
    \/ Load
    \/ \E which \in {"q", "s"}, ok \in BOOLEAN : LoadRespond(which, ok, IF which = "s" /\ ok THEN LB_Live ELSE <<>>)
    \/ \E i \in 1..Len(posts), hs \in PostHighScores : PostSucceed(i, 1, hs)
    \/ \E i \in 1..Len(posts), f \in Failures : PostFail(i, f)
    \/ \E i \in 1..Len(posts), ok \in BOOLEAN : PostFetchRespond(i, ok, IF ok THEN LB_Live ELSE <<>>)
    \/ RefreshSucceed(LB_Live)
    \/ \E f \in Failures : RefreshFail(f)
    \/ \E ok \in BOOLEAN : MountFetchRespond(ok, IF ok /\ mountFetch = "scores" THEN LB_Live ELSE <<>>)

SpecNet == InitNet /\ [][NextNet]_vars

\* Every request settles: axios answers each of them with a response, an
\* error or, at the latest, its timeout (10 s for the reads, 15 s for the
\* POST), and the event loop then runs the continuation.  The initial load
\* and the submissions are each served whatever else is going on.
LoadSettles ==
    \E which \in {"q", "s"}, ok \in BOOLEAN :
        LoadRespond(which, ok, IF which = "s" /\ ok THEN LB_Live ELSE <<>>)
PostSettles ==
    \/ \E i \in 1..Len(posts), hs \in PostHighScores : PostSucceed(i, 1, hs)
    \/ \E i \in 1..Len(posts), f \in Failures : PostFail(i, f)
    \/ \E i \in 1..Len(posts), ok \in BOOLEAN :
          PostFetchRespond(i, ok, IF ok THEN LB_Live ELSE <<>>)
SpecNetLive == SpecNet /\ WF_vars(LoadSettles) /\ WF_vars(PostSettles)

(***************************************************************************)
(* Properties                                                              *)
(***************************************************************************)

\* The bot signals: a user agent that contains bot, crawler, spider, scraper
\* or headless, the webdriver flag true, a callPhantom or _phantom marker.
BotSignal(e) ==
    \/ \E pattern \in botPatterns : includes(toLowerCase(e.ua), pattern)
    \/ e.webdriver = "true"
    \/ e.callPhantom
    \/ e._phantom

\* No request is in flight.  A request that is issued is in flight in the
\* state right after the step that issues it, so that this holds in every
\* reachable state exactly when no request is ever issued.
NoRequest ==
    /\ loadQ = "none" /\ loadS = "none"
    /\ posts = <<>> /\ refreshes = 0
    /\ mountFetch = "none"

\* the variants that run the bot heuristic
HasBotCheck == variant \in {"App", "P1", "P3"}

\* C1, as stated: in every environment that matches a bot signal, whatever
\* events and calls happen, the gate (hasRealUser, quizStarted) never becomes
\* true and no request (GET questions, GET scores, POST scores) is issued.
C1_BotNeverUnlocks_AllVariants ==
    BotSignal(env) => ~hasRealUser /\ ~quizStarted /\ NoRequest

\* C1, amended: the same, in the variants that run the bot heuristic
\* (App.vue, part_001, part_003).  part_000 and part_002 never look at the
\* environment.
C1_BotNeverUnlocks ==
    (BotSignal(env) /\ HasBotCheck) => ~hasRealUser /\ ~quizStarted /\ NoRequest

\* a bot environment in part_001 in which the name field, whose handler
\* calls detectUserInteraction, has been typed into, and time has passed
C1_Witness ==
    /\ BotSignal(env) /\ variant = "P1" /\ mounted
    /\ userName # <<>> /\ now > StartNow
    /\ ~hasRealUser

\* The gate is locked: quizStarted false or hasRealUser false.  part_000 and
\* part_001 have no quizStarted; part_002 has no gate.
GateLocked ==
    CASE variant \in {"App", "P3"} -> ~quizStarted \/ ~hasRealUser
      [] variant \in {"P0", "P1"} -> ~hasRealUser
      [] OTHER -> FALSE

\* C2, as stated: while the gate is locked, a call to loadInitialData,
\* calculateScore or refreshHighScores issues no request and leaves every
\* state variable as it was, message and the gate included.
C2_LockedCallsAreNoOps_AllVariants ==
    (mounted /\ GateLocked) =>
        /\ loadInitialData(Cur) = Cur
        /\ calculateScore(Cur) = Cur
        /\ refreshHighScores(Cur) = Cur

\* C2, amended: that holds in App.vue, part_001 and part_003.  In part_000
\* it holds of loadInitialData only: calculateScore and refreshHighScores
\* open the gate themselves (they call detectUserInteraction, which starts
\* the load) and go on to their checks.
C2_LockedCallsAreNoOps ==
    (mounted /\ GateLocked) =>
        /\ loadInitialData(Cur) = Cur
        /\ IF variant = "P0"
           THEN /\ calculateScore(Cur).hasRealUser
                /\ refreshHighScores(Cur).hasRealUser
                /\ (~dataLoaded /\ ~isLoading) =>
                      /\ calculateScore(Cur).loadQ = "pending"
                      /\ refreshHighScores(Cur).loadQ = "pending"
           ELSE /\ calculateScore(Cur) = Cur
                /\ refreshHighScores(Cur) = Cur

\* a locked state of App.vue in which the checks behind the gate would have
\* written a message, and calculateScore changes nothing
C2_Witness ==
    /\ variant = "App" /\ mounted /\ GateLocked
    /\ submitChecked(Cur) # Cur
    /\ calculateScore(Cur) = Cur

\* a step that unlocks the gate
Unlocks == ~hasRealUser /\ hasRealUser'

C4_GateStaysOpen ==
    [][(hasRealUser => hasRealUser') /\ (quizStarted => quizStarted')]_vars

\* the gate is open after a submission failed with the backend down and the
\* worksheet was reset
C4_Witness ==
    /\ hasRealUser /\ quizStarted
    /\ ~backendAvailable /\ criticalError
    /\ message = NoMessage /\ userName = <<>> /\ dataLoaded
    /\ Len(questions) > 0

\* C5, as stated: when every event is untrusted, whether it reaches the
\* document listeners or the handlers of the name field, the Start button
\* or the choice buttons, hasRealUser stays false and no load is started.
C5_UntrustedNeverConfirms ==
    ~hasRealUser /\ ~isLoading /\ loadQ = "none" /\ loadS = "none"

\* part_001 with the gate open and both GETs issued, although no document
\* event was counted and the accumulator never confirmed: the gate was
\* opened through the name field or the Start button
C5_Witness ==
    /\ variant = "P1" /\ hasRealUser
    /\ interactionCount = 0 /\ ~accConfirmed
    /\ loadQ = "pending" /\ loadS = "pending"

\* C6: in part_001, checkRealUserInteraction calls detectUserInteraction
\* only in a state where a mousemove has been seen, a click or a key press
\* has been seen, and the event counter is at least 3; trusted document
\* events that lack one of the three never confirm.
C6_ConfirmNeedsAllThree ==
    accConfirmed =>
        /\ hasMouseMoved
        /\ hasClicked \/ keySeen
        /\ interactionCount >= 3

\* the accumulator confirmed on a key press, without any click
C6_Witness ==
    /\ variant = "P1" /\ accConfirmed
    /\ keySeen /\ ~hasClicked /\ hasMouseMoved
    /\ hasRealUser

(* ------------------------- calculateScore ---------------------------- *)
\* the state calculateScore leaves when it is called now
Submitted == calculateScore(Cur)
\* the call issues a POST; its body is the last entry of posts
Posts == Len(Submitted.posts) = Len(posts) + 1
PostBody == Submitted.posts[Len(Submitted.posts)]

Answered == Cardinality(DOMAIN userAnswers)
Loaded == Len(questions)

\* the positions of str that are not among its leading or trailing blanks
Core(str) ==
    {i \in 1..Len(str) : /\ \E a \in 1..i : str[a] # " "
                         /\ \E b \in i..Len(str) : str[b] # " "}

\* t is str without its leading and trailing blanks
IsTrimOf(t, str) ==
    LET core == Core(str) IN
    /\ Len(t) = Cardinality(core)
    /\ \A i \in core : t[1 + Cardinality({j \in core : j < i})] = str[i]

\* the trimmed name has between 2 and 50 characters
NameValid ==
    LET n == Cardinality(Core(userName)) IN n >= 2 /\ n <= 50

\* the gate lets a submission through: the quiz is started (where there is
\* such a flag), a human is confirmed, the honeypot is empty, the
\* environment passes the variant's bot check, and no submission is under
\* way.  part_000 opens the gate in the call; part_002 has no gate.
GateOpen ==
    CASE variant \in {"App", "P3"} ->
           quizStarted /\ hasRealUser /\ honeypot = <<>> /\ ~BotSignal(env)
           /\ ~isSubmitting
      [] variant = "P1" ->
           hasRealUser /\ honeypot = <<>> /\ ~BotSignal(env)
           /\ env.webdriver = "undefined" /\ ~isSubmitting
      [] variant = "P0" -> ~isSubmitting
      [] OTHER -> TRUE

\* message m cites both numbers
CitesBoth(m, n, k) ==
    \E i, j \in DOMAIN m.args : i # j /\ m.args[i] = n /\ m.args[j] = k

\* C7: calculateScore issues the POST only when the number of answered
\* questions equals the number of loaded questions; with k < N it issues no
\* POST, and where the earlier checks pass (gate open, backend available,
\* valid name) it sets a message that cites both N and k; with k = N and
\* those checks passing it issues the POST.
C7_PostOnlyWhenComplete ==
    mounted =>
        /\ Posts => Answered = Loaded
        /\ Answered < Loaded => ~Posts
        /\ (GateOpen /\ backendAvailable /\ NameValid /\ Answered < Loaded) =>
              CitesBoth(Submitted.message, Loaded, Answered)
        /\ (GateOpen /\ backendAvailable /\ NameValid /\ Answered = Loaded) => Posts

\* one of two questions is answered and the message of the rejected
\* submission, which cites 2 and 1, is on the screen
C7_Witness ==
    /\ Loaded = NumQ /\ Answered = NumQ - 1 /\ Answered > 0
    /\ NameValid /\ posts = <<>>
    /\ CitesBoth(message, Loaded, Answered)

NameMessages == {M_NameMissing, M_NameLength}

\* C8, as stated: the checks run in the order gate, backend availability,
\* name, completeness, and the first that fails decides: a gate failure
\* leaves message as it was, whatever the backend and the name; with the
\* gate open and backendAvailable false the message is the
\* service-unavailable text, even if the name is empty; an invalid name
\* gives the name message, even if answers are missing.
C8_CheckOrder_AllVariants ==
    mounted =>
        /\ (HasGate /\ ~GateOpen) => Submitted.message = message /\ ~Posts
        /\ (HasGate /\ GateOpen /\ ~backendAvailable) =>
              Submitted.message = M_UnavailSubmit /\ ~Posts
        /\ (GateOpen /\ backendAvailable /\ ~NameValid) =>
              Submitted.message \in NameMessages /\ ~Posts

\* C8, amended: that holds in App.vue, part_001 and part_003.  In part_000
\* the gate check cannot fail, since the call opens the gate: with the gate
\* locked the later checks run and write their message.  part_002 checks
\* two things only: that the name as typed is not empty, then completeness;
\* a name of blanks, of one character or of more than 50 passes.
C8_CheckOrder ==
    mounted =>
        /\ (variant \in {"App", "P1", "P3"} /\ ~GateOpen) =>
              Submitted = Cur
        /\ (variant = "P0" /\ isSubmitting) => Submitted = Cur
        /\ (HasGate /\ GateOpen /\ ~backendAvailable) =>
              Submitted.message = M_UnavailSubmit /\ ~Posts
        /\ (HasGate /\ GateOpen /\ backendAvailable /\ ~NameValid) =>
              Submitted.message \in NameMessages /\ ~Posts
        /\ (variant = "P2" /\ userName = <<>>) =>
              Submitted.message = M_NameMissing /\ ~Posts
        /\ (variant = "P2" /\ userName # <<>> /\ Answered < Loaded) =>
              CitesBoth(Submitted.message, Loaded, Answered) /\ ~Posts
        /\ (variant = "P2" /\ userName # <<>> /\ Answered = Loaded) => Posts

\* the gate is open, the backend is up, no name is entered and answers are
\* missing, and the message of the rejected submission is the name's
C8_Witness ==
    /\ variant \in {"App", "P3"} /\ GateOpen
    /\ backendAvailable /\ userName = <<>>
    /\ Loaded > 0 /\ Answered < Loaded
    /\ message = M_NameMissing

\* C9, as stated: a POST is issued only if the trimmed name has between 2
\* and 50 characters, and its body carries that trimmed name and the
\* current answer map; an empty name, a name of blanks, or one whose trimmed
\* length is 1 or above 50 gives a message and no POST.
C9_PostCarriesTrimmedName_AllVariants ==
    mounted =>
        /\ Posts => /\ NameValid
                    /\ IsTrimOf(PostBody.name, userName)
                    /\ PostBody.userAnswers = userAnswers
        /\ ~NameValid => ~Posts
        /\ (GateOpen /\ backendAvailable /\ ~NameValid) =>
              Submitted.message \in NameMessages

\* C9, amended: that holds in App.vue, part_000, part_001 and part_003.
\* part_002 posts whenever the name as typed is not empty (and the answers
\* are complete), and the body carries the name as typed, blanks included.
C9_PostCarriesTrimmedName ==
    mounted =>
        IF variant # "P2"
        THEN /\ Posts => /\ NameValid
                         /\ IsTrimOf(PostBody.name, userName)
                         /\ PostBody.userAnswers = userAnswers
             /\ ~NameValid => ~Posts
             /\ (GateOpen /\ backendAvailable /\ ~NameValid) =>
                   Submitted.message \in NameMessages
        ELSE /\ Posts <=> (userName # <<>> /\ Answered >= Loaded)
             /\ Posts => /\ PostBody.name = userName
                         /\ PostBody.userAnswers = userAnswers
             /\ userName = <<>> => Submitted.message = M_NameMissing

\* a submission of App.vue is in flight: the name was typed with blanks
\* around it and the body carries it without them
C9_Witness ==
    /\ variant = "App" /\ Len(posts) = 1
    /\ userName # posts[1].name
    /\ IsTrimOf(posts[1].name, userName)
    /\ posts[1].userAnswers = userAnswers

\* some answer is the empty string
HasEmptyAnswer == \E id \in DOMAIN userAnswers : userAnswers[id] = ""

SubmitIssuesNothing ==
    /\ Submitted.posts = posts /\ Submitted.refreshes = refreshes
    /\ Submitted.loadQ = loadQ /\ Submitted.loadS = loadS
    /\ Submitted.mountFetch = mountFetch

\* C11: with the gate open and backendAvailable false, a call of
\* calculateScore issues no request and leaves the service-unavailable
\* message for the user to see; and for as long as backendAvailable is
\* false the Submit button is disabled.
C11_DownBlocksSubmit ==
    mounted =>
        /\ (GateOpen /\ ~backendAvailable) =>
              /\ SubmitIssuesNothing
              /\ Submitted.message = M_UnavailSubmit
              /\ Submitted.message # NoMessage
        /\ ~backendAvailable => submitDisabled

\* the gate is open, the backend is down, and name and answers would pass
\* the later checks: the call is rejected and the button is disabled
C11_Witness ==
    /\ variant = "App" /\ mounted /\ GateOpen /\ ~backendAvailable
    /\ NameValid /\ Answered = Loaded
    /\ message # M_UnavailSubmit /\ Submitted.message = M_UnavailSubmit
    /\ submitDisabled /\ ~isLoading

(* --------------------- a submission that succeeded -------------------- *)

\* the GETs of the scores endpoint that are in flight: the initial load's,
\* the manual refreshes, and part_002's fetchHighScores calls
ScoreGets(lS, r, p, mf) ==
      (IF lS = "pending" THEN 1 ELSE 0) + r
    + Cardinality({k \in 1..Len(p) : p[k].stage = "fetch"})
    + (IF mf = "scores" THEN 1 ELSE 0)

NoScoresGetIssued ==
    ScoreGets(loadS', refreshes', posts', mountFetch')
        <= ScoreGets(loadS, refreshes, posts, mountFetch)

\* C12, as stated: when a POST is answered with success, the leaderboard
\* becomes the highScores array of the response if it carries one and stays
\* as it was otherwise, and handling the response issues no GET of the
\* scores endpoint.
C12_BoardFromResponse_AllVariants ==
    [][\A i \in 1..Len(posts), hs \in PostHighScores :
          PostSucceed(i, 1, hs) =>
              /\ highScores' = (IF hs # <<>> THEN hs[1] ELSE highScores)
              /\ NoScoresGetIssued]_vars

\* C12, amended: that holds in App.vue, part_000, part_001 and part_003.
\* part_002 does not read highScores from the response: it leaves the
\* leaderboard as it was and issues a GET of the scores endpoint
\* (await fetchHighScores()), whose answer becomes the leaderboard.
C12_BoardFromResponse ==
    [][\A i \in 1..Len(posts), hs \in PostHighScores :
          PostSucceed(i, 1, hs) =>
              IF variant = "P2"
              THEN /\ highScores' = highScores
                   /\ posts'[i].stage = "fetch"
                   /\ ~NoScoresGetIssued
              ELSE /\ highScores' = (IF hs # <<>> THEN hs[1] ELSE highScores)
                   /\ NoScoresGetIssued]_vars

\* a submission was answered with a leaderboard, which is now shown, and
\* nothing is in flight
C12_Witness ==
    /\ variant = "App" /\ score # NullScore /\ message = M_Server(1)
    /\ highScores = LB_Post /\ NoRequest

\* C13, as stated: when a POST is answered with success, score and message
\* become those of the response, the name field and the answers are
\* emptied, and the questions stay as they were.
C13_FormClearedOnSuccess_AllVariants ==
    [][\A i \in 1..Len(posts), hs \in PostHighScores :
          PostSucceed(i, 1, hs) =>
              /\ score' = <<1>> /\ message' = M_Server(1)
              /\ userName' = <<>> /\ userAnswers' = NoAnswers
              /\ questions' = questions]_vars

\* C13, amended: that holds in App.vue, part_000, part_001 and part_003.
\* part_002 sets score and message from the response and keeps name,
\* answers and questions; the answers are emptied when the leaderboard GET
\* that follows has settled (and if that GET failed, message is its error
\* text by then); the name is never emptied.
C13_FormClearedOnSuccess ==
    [][/\ \A i \in 1..Len(posts), hs \in PostHighScores :
             PostSucceed(i, 1, hs) =>
                 /\ score' = <<1>> /\ message' = M_Server(1)
                 /\ questions' = questions
                 /\ IF variant = "P2"
                    THEN userName' = userName /\ userAnswers' = userAnswers
                    ELSE userName' = <<>> /\ userAnswers' = NoAnswers
       /\ \A i \in 1..Len(posts), ok \in BOOLEAN :
             PostFetchRespond(i, ok, IF ok THEN LB_Live ELSE <<>>) =>
                 /\ userAnswers' = NoAnswers /\ userName' = userName
                 /\ score' = score /\ questions' = questions
                 /\ message' = (IF ok THEN message ELSE M_P2_Scores)]_vars

\* a submission with a name and a full answer map has succeeded: score and
\* message are the response's, name and answers are empty, the questions
\* are still there
C13_Witness ==
    /\ variant = "App" /\ score = <<1>> /\ message = M_Server(1)
    /\ userName = <<>> /\ userAnswers = NoAnswers
    /\ Loaded = NumQ /\ posts = <<>> /\ ~isSubmitting

(* ----------------------- a submission that failed --------------------- *)

\* C14, as stated: a POST that fails with a timeout or a status of 500 or
\* more sets backendAvailable false and criticalError true; one that fails
\* otherwise (a 4xx status, no response) leaves both flags as they were and
\* sets the try-again message.
C14_SubmitFailureClasses_AllVariants ==
    [][\A i \in 1..Len(posts), f \in Failures :
          PostFail(i, f) =>
              IF f \in {"timeout", "http5xx"}
              THEN ~backendAvailable' /\ criticalError'
              ELSE /\ backendAvailable' = backendAvailable
                   /\ criticalError' = criticalError
                   /\ message' = M_SubmitFailed]_vars

\* C14, amended: that holds in App.vue, part_000, part_001 and part_003.
\* part_002 has neither flag and does not look at the error: every failed
\* POST sets the try-again message and nothing else.
C14_SubmitFailureClasses ==
    [][\A i \in 1..Len(posts), f \in Failures :
          PostFail(i, f) =>
              IF f \in {"timeout", "http5xx"} /\ variant # "P2"
              THEN ~backendAvailable' /\ criticalError'
              ELSE /\ backendAvailable' = backendAvailable
                   /\ criticalError' = criticalError
                   /\ message' = M_SubmitFailed]_vars

\* a POST has failed as backend-down: both flags are set, nothing is in
\* flight
C14_Witness ==
    /\ variant = "App" /\ dataLoaded /\ Loaded = NumQ
    /\ ~backendAvailable /\ criticalError
    /\ message = M_BackendDown /\ posts = <<>> /\ ~isSubmitting

(* ------------------------ the backend-down flag ----------------------- *)

\* C15: once backendAvailable is false it stays false for the rest of the
\* session, whatever requests are still in flight or answered later.
C15_DownIsPermanent ==
    [][~backendAvailable => ~backendAvailable']_vars

\* a failed refresh marked the backend down while a POST was in flight,
\* and that POST has since been answered with success: its message is
\* shown, and backendAvailable is still false
C15_Witness ==
    /\ variant = "App" /\ ~backendAvailable /\ dataLoaded
    /\ message = M_Server(1) /\ score = <<1>>
    /\ refreshes = 0 /\ posts = <<>>

\* C16: whenever backendAvailable is false, criticalError is true: every
\* backend-down classification (initial load, submission, manual refresh)
\* sets both flags.
C16_DownImpliesCritical ==
    ~backendAvailable => criticalError

\* App.vue after a manual refresh that timed out or was answered with a
\* status of 500 or more: the backend is marked down and the message asks
\* for a page reload, but criticalError is false
C16_Witness ==
    /\ variant = "App" /\ dataLoaded /\ Loaded = NumQ
    /\ ~backendAvailable /\ ~criticalError
    /\ message = M_BackendDown /\ refreshes = 0

(* ----------------------------- re-entrancy ---------------------------- *)

\* the POSTs that have been issued and not answered yet
PostsInFlight == Cardinality({k \in 1..Len(posts) : posts[k].stage = "post"})

\* whether the initial load's GETs are in flight
LoadInFlight == loadQ = "pending" \/ loadS = "pending"

\* C17, as stated: a call of calculateScore while isSubmitting is true, and
\* a call of loadInitialData while isLoading is true, changes nothing and
\* issues nothing; hence at most one POST is in flight at any time, and the
\* flags are set exactly while their request is in flight.
C17_NoReentry_AllVariants ==
    mounted =>
        /\ isSubmitting => Submitted = Cur
        /\ (HasGate /\ isLoading) => loadInitialData(Cur) = Cur
        /\ PostsInFlight <= 1
        /\ HasGate => (isLoading <=> LoadInFlight)

\* C17, amended: that holds in App.vue, part_000, part_001 and part_003,
\* where isSubmitting is true exactly while the POST is in flight.
\* part_002 has no isSubmitting flag and no check: with a POST in flight, a
\* call of calculateScore with a name and a full answer map issues another.
C17_NoReentry ==
    mounted =>
        /\ isSubmitting => Submitted = Cur
        /\ (HasGate /\ isLoading) => loadInitialData(Cur) = Cur
        /\ HasGate => /\ PostsInFlight <= 1
                      /\ isSubmitting <=> (PostsInFlight = 1)
                      /\ isLoading <=> LoadInFlight
        /\ (variant = "P2" /\ userName # <<>> /\ Answered = Loaded) => Posts

\* App.vue with its POST in flight and name and answers still in the form:
\* one more call would pass every check but the isSubmitting one
C17_Witness ==
    /\ variant = "App" /\ isSubmitting /\ PostsInFlight = 1
    /\ quizStarted /\ hasRealUser /\ backendAvailable
    /\ NameValid /\ Loaded = NumQ /\ Answered = Loaded

(* ------------------------- leaderboard fetches ------------------------ *)

RefreshGate ==
    CASE variant \in {"App", "P3"} ->
           quizStarted /\ hasRealUser
           /\ ~(IF variant = "App" THEN isBot_App(env) ELSE isBot_P3(env))
      [] variant = "P1" -> hasRealUser /\ ~isBot_P1(env)
      [] OTHER -> TRUE

RefreshIssues == refreshHighScores(Cur).refreshes = refreshes + 1

LoadStarts == ~LoadInFlight /\ LoadInFlight'

\* C19: two executions of loadInitialData that issue requests are at least
\* 10 s apart (there is never a second one: the first leaves isLoading, then
\* dataLoaded, set); a call made less than 10 s after the accepted one
\* issues no request, does not set isLoading and does not move the
\* timestamp, which moves only when a load is accepted.
C19_LoadsRateLimited ==
    [][HasGate =>
          /\ LoadStarts =>
                /\ ~dataLoaded /\ ~isLoading /\ isLoading'
                /\ variant # "P0" =>
                      now - lastApiCall >= RATE_LIMIT_MS /\ lastApiCall' = now
          /\ (lastApiCall # 0 /\ now - lastApiCall < RATE_LIMIT_MS) =>
                /\ loadInitialData(Cur) = Cur
                /\ ~LoadStarts /\ lastApiCall' = lastApiCall
          /\ lastApiCall' # lastApiCall => LoadStarts
          /\ (isLoading \/ dataLoaded) => (isLoading' \/ dataLoaded')]_vars

\* App.vue 5 s after its accepted load, which has been answered: a call of
\* loadInitialData now changes nothing
C19_Witness ==
    /\ variant = "App" /\ dataLoaded /\ ~isLoading
    /\ lastApiCall = StartNow /\ now = lastApiCall + TickMs
    /\ now - lastApiCall < RATE_LIMIT_MS
    /\ loadInitialData(Cur) = Cur

(* ---------------------- the initial load's outcome -------------------- *)

\* the step in which the initial load settles: the second of its two GETs
\* is answered, with success (ok) or not, the first having been answered
\* with the outcome `other`
LoadSettlesWith(which, ok, other) ==
    /\ LoadRespond(which, ok, IF which = "s" /\ ok THEN LB_Live ELSE <<>>)
    /\ (IF which = "q" THEN loadS ELSE loadQ) = other

\* both reads of the initial load have failed, in either order
BothReadsFail ==
    \E which \in {"q", "s"} : LoadSettlesWith(which, FALSE, "rejected")

\* C21, as stated: when the question read and the leaderboard read of the
\* initial load both fail, questions is the bundled fallback set, which is
\* not empty, the leaderboard is the fallback list or empty,
\* backendAvailable is false, dataLoaded is true and isLoading is false.
C21_BothFailUsable_AllVariants ==
    [][BothReadsFail =>
          /\ questions' = FALLBACK_QUESTIONS /\ Len(questions') > 0
          /\ highScores' \in {FALLBACK_HIGH_SCORES, <<>>}
          /\ ~backendAvailable' /\ dataLoaded' /\ ~isLoading']_vars

\* C21, amended: that holds in part_003, which installs the bundled
\* questions and the bundled leaderboard and says it runs offline.
\* App.vue, part_000 and part_001 bundle no data: the question list stays
\* empty, the leaderboard is emptied, backendAvailable is false,
\* criticalError is true and the backend-unavailable message is shown;
\* dataLoaded is true and isLoading false there too.
C21_BothFailUsable ==
    [][BothReadsFail =>
          /\ ~backendAvailable' /\ dataLoaded' /\ ~isLoading'
          /\ IF variant = "P3"
             THEN /\ questions' = FALLBACK_QUESTIONS /\ Len(questions') > 0
                  /\ highScores' = FALLBACK_HIGH_SCORES
                  /\ criticalError' = criticalError
                  /\ message' = M_Offline
             ELSE /\ questions' = <<>> /\ highScores' = <<>>
                  /\ criticalError' /\ message' = M_BackendLoad]_vars

\* part_003 after a load whose two reads failed: the bundled questions and
\* the bundled leaderboard are installed
C21_Witness ==
    /\ variant = "P3" /\ dataLoaded /\ ~isLoading /\ ~backendAvailable
    /\ questions = FALLBACK_QUESTIONS /\ highScores = FALLBACK_HIGH_SCORES
    /\ message = M_Offline /\ ~LoadInFlight

\* the question read has succeeded and the leaderboard read has failed, in
\* either order
OnlyScoresFail ==
    \/ LoadSettlesWith("s", FALSE, "fulfilled")
    \/ LoadSettlesWith("q", TRUE, "rejected")

\* C22, as stated: when the question read succeeds and the leaderboard read
\* fails, backendAvailable stays true, criticalError stays false, and the
\* questions of the response are installed.
C22_ScoresFailureNotFatal_AllVariants ==
    [][OnlyScoresFail =>
          /\ backendAvailable' /\ ~criticalError'
          /\ questions' = ServerQuestions]_vars

\* C22, amended: that holds in App.vue, part_000 and part_001, which empty
\* the leaderboard.  part_003 holds the backend available only if both
\* reads succeed: it installs the questions and leaves criticalError false,
\* but sets backendAvailable false and shows the bundled leaderboard.
C22_ScoresFailureNotFatal ==
    [][OnlyScoresFail =>
          /\ ~criticalError' /\ questions' = ServerQuestions
          /\ dataLoaded' /\ ~isLoading' /\ message' = message
          /\ IF variant = "P3"
             THEN ~backendAvailable' /\ highScores' = FALLBACK_HIGH_SCORES
             ELSE backendAvailable' /\ highScores' = <<>>]_vars

\* App.vue after a load whose leaderboard read failed: the questions are
\* there, the leaderboard is empty, the backend counts as available
C22_Witness ==
    /\ variant = "App" /\ dataLoaded /\ ~isLoading
    /\ questions = ServerQuestions /\ highScores = <<>>
    /\ backendAvailable /\ ~criticalError /\ score = NullScore

\* C23: the two reads of loadInitialData are issued in one step, nothing is
\* installed before both have settled, and then each outcome is applied on
\* its own, in each of the four combinations: the question list is that of
\* the response iff the question read succeeded, the leaderboard is that of
\* the response iff the scores read succeeded; a failed read never discards
\* what the other one fetched.
C23_ReadsReconciledIndependently ==
    [][/\ LoadStarts => loadQ' = "pending" /\ loadS' = "pending"
       /\ (LoadInFlight /\ LoadInFlight') =>
             questions' = questions /\ highScores' = highScores
       /\ \A which \in {"q", "s"}, ok \in BOOLEAN, other \in {"fulfilled", "rejected"} :
             LoadSettlesWith(which, ok, other) =>
                LET qOK == IF which = "q" THEN ok ELSE other = "fulfilled"
                    sOK == IF which = "s" THEN ok ELSE other = "fulfilled"
                IN /\ (questions' = ServerQuestions) <=> qOK
                   /\ (highScores' = LB_Live) <=> sOK
                   /\ ~qOK => questions' \in {questions, FALLBACK_QUESTIONS}
                   /\ ~sOK => highScores' \in {<<>>, FALLBACK_HIGH_SCORES}]_vars

\* the question read failed and the leaderboard read succeeded: the
\* leaderboard of the response is shown all the same
C23_Witness ==
    /\ variant = "App" /\ dataLoaded /\ ~LoadInFlight
    /\ questions = <<>> /\ highScores = LB_Live
    /\ ~backendAvailable /\ criticalError /\ message = M_BackendLoad

(* ----------------------------- the honeypot --------------------------- *)

\* the requests in flight in state s
NetOf(s) == <<s.loadQ, s.loadS, s.posts, s.refreshes, s.mountFetch>>

\* C24: while the honeypot field is not empty no operation issues a
\* request: Start does not unlock the gate, and loadInitialData,
\* refreshHighScores and calculateScore return without contacting the
\* backend, also when the field was filled after the gate was unlocked.
C24_HoneypotBlocksRequests ==
    (mounted /\ HasHoneypot /\ honeypot # <<>>) =>
        /\ startQuiz(Cur).hasRealUser = hasRealUser
        /\ NetOf(startQuiz(Cur)) = NetOf(Cur)
        /\ NetOf(loadInitialData(Cur)) = NetOf(Cur)
        /\ NetOf(refreshHighScores(Cur)) = NetOf(Cur)
        /\ NetOf(calculateScore(Cur)) = NetOf(Cur)

\* App.vue with the gate unlocked, the leaderboard loaded and the honeypot
\* filled since: the Refresh button takes a click, and the click issues a
\* GET of the scores endpoint
C24_Witness ==
    /\ variant = "App" /\ mounted /\ honeypot # <<>>
    /\ quizStarted /\ hasRealUser /\ dataLoaded
    /\ refreshRendered /\ ~refreshDisabled
    /\ refreshHighScores(Cur).refreshes = refreshes + 1
    /\ NetOf(calculateScore(Cur)) = NetOf(Cur)

(* --------------------------- the bot heuristic ------------------------ *)

\* the running variant's isBot, for the variants that have one
isBotOf(e) ==
    CASE variant = "App" -> isBot_App(e)
      [] variant = "P1" -> isBot_P1(e)
      [] variant = "P3" -> isBot_P3(e)

\* C25: isBot rejects the environment if and only if a signal is present:
\* the lower-cased user agent contains bot, crawler, spider, scraper or
\* headless, the webdriver flag is true, or a callPhantom or _phantom
\* marker exists.  In particular a clean user agent with no marker and the
\* webdriver flag reported as false is accepted.
C25_IsBotIffSignal ==
    HasBotCheck => (isBotOf(env) <=> BotSignal(env))

\* part_001 in a current browser driven by a person (clean user agent, no
\* marker, navigator.webdriver false): isBot rejects it, and the name typed
\* into the form has not opened the gate
C25_Witness ==
    /\ variant = "P1" /\ mounted
    /\ env = Env(UA_Mozilla, "false", FALSE, FALSE, TRUE)
    /\ ~BotSignal(env) /\ isBot_P1(env)
    /\ userName # <<>> /\ honeypot = <<>>
    /\ ~hasRealUser /\ NoRequest

(* ------------------------------- the form ----------------------------- *)

\* C26: from every reachable state, resetWorksheet leaves the name empty,
\* score null, message empty and the answer map empty, and leaves the
\* questions, the leaderboard, the gate, the loading and availability
\* flags, and everything else, requests in flight included, as they were.
C26_ResetFrame ==
    LET r == resetWorksheet(Cur) IN
    /\ r.userName = <<>> /\ r.score = NullScore
    /\ r.message = NoMessage /\ r.userAnswers = NoAnswers
    /\ r.questions = questions /\ r.highScores = highScores
    /\ r.hasRealUser = hasRealUser /\ r.quizStarted = quizStarted
    /\ r.userInteracted = userInteracted /\ r.honeypot = honeypot
    /\ r.isLoading = isLoading /\ r.isSubmitting = isSubmitting
    /\ r.dataLoaded = dataLoaded /\ r.backendAvailable = backendAvailable
    /\ r.criticalError = criticalError /\ r.lastApiCall = lastApiCall
    /\ NetOf(r) = NetOf(Cur)
    /\ r = [Cur EXCEPT !.userName = <<>>, !.score = NullScore,
                       !.message = NoMessage, !.userAnswers = NoAnswers]

\* a state in which the four fields all hold something, questions and
\* leaderboard are loaded and a POST is in flight
C26_Witness ==
    /\ variant = "P2" /\ userName # <<>> /\ score # NullScore
    /\ message # NoMessage /\ userAnswers # NoAnswers
    /\ Loaded = NumQ /\ highScores # <<>> /\ posts # <<>>
    /\ resetWorksheet(Cur) # Cur

(* ---------------------------- the answer map -------------------------- *)

\* C27: a click on a choice of a question sets the answer map's entry for
\* that question to the choice and changes no other key; when the choice
\* was already the selected one the map stays equal, and when another
\* choice was selected the value is replaced and the number of answered
\* questions stays the same.
C27_SelectionSetsOneKey ==
    /\ [](\A i \in 1..Len(questions) : \A c \in 1..Len(questions[i].choices) :
            LET id == questions[i].id
                choice == questions[i].choices[c]
                after == setAnswer(userAnswers, id, choice) IN
            /\ after[id] = choice
            /\ setAnswer(after, id, choice) = after)
    /\ [][\A i \in 1..NumQ, c \in 1..3 :
           ChoiceClick(i, c) =>
             LET id == questions[i].id
                 choice == questions[i].choices[c] IN
             /\ id \in DOMAIN userAnswers' /\ userAnswers'[id] = choice
             /\ DOMAIN userAnswers' = (DOMAIN userAnswers) \cup {id}
             /\ \A k \in (DOMAIN userAnswers) \ {id} : userAnswers'[k] = userAnswers[k]
             /\ (id \in DOMAIN userAnswers /\ userAnswers[id] = choice)
                   => userAnswers' = userAnswers
             /\ id \in DOMAIN userAnswers
                   => answeredCount(userAnswers') = answeredCount(userAnswers)
       ]_vars

\* every question is answered and the first one holds its second choice,
\* which the first choice of the same question would replace
C27_Witness ==
    /\ Loaded = NumQ /\ Answered = NumQ
    /\ userAnswers[questions[1].id] = questions[1].choices[2]
    /\ setAnswer(userAnswers, questions[1].id, questions[1].choices[1]) # userAnswers
    /\ answeredCount(setAnswer(userAnswers, questions[1].id, questions[1].choices[1]))
         = Answered

\* the identifiers of the questions now loaded
QuestionIds == {questions[i].id : i \in 1..Len(questions)}

\* C28: in every reachable state the keys of the answer map are identifiers
\* of questions now loaded, so the answered count is at most the question
\* count, whatever the order of selections, load completions, submissions
\* and resets.
C28_AnswersWithinQuestions ==
    /\ DOMAIN userAnswers \subseteq QuestionIds
    /\ answeredCount(userAnswers) <= Len(questions)

\* every question is answered again after a scored submission, with a
\* further submission in flight
C28_Witness ==
    /\ Loaded = NumQ /\ DOMAIN userAnswers = QuestionIds
    /\ score # NullScore /\ posts # <<>>

(* ------------------------------ timeouts ------------------------------ *)

C30_ConfirmsOnCompleteEvidence ==
    variant = "P1" =>
       (hasMouseMoved /\ (hasClicked \/ keySeen)
          /\ interactionCount >= MIN_INTERACTIONS => accConfirmed)

\* keydown, keydown, mousemove have been counted and nothing was confirmed
C30_Witness ==
    /\ variant = "P1" /\ mounted /\ interactionCount = MIN_INTERACTIONS
    /\ keySeen /\ hasMouseMoved /\ ~hasClicked
    /\ ~accConfirmed /\ ~hasRealUser /\ ~userInteracted

(* ------------------- the initial load: arrival order ------------------ *)

\* the state the initial load leaves when the question read ended qOK and
\* the leaderboard read ended sOK with payload d
LoadOutcome(qOK, sOK, d) ==
    loadSettled([Cur EXCEPT !.loadQ = "none", !.loadS = "none",
                            !.loadSData = <<>>], qOK, sOK, d)

\* C31: the state after the initial load depends on the two outcomes only,
\* not on which response arrived first; and the load changes nothing but
\* isLoading and the rate-limit timestamp until both reads have settled:
\* loadInitialData itself sets only these two (and issues the two reads),
\* and the response that arrives first is only remembered.
C31_LoadOrderIrrelevant ==
    /\ [](variant # "P2" =>
            LET r == loadInitialData(Cur) IN
            r = [Cur EXCEPT !.isLoading = r.isLoading,
                            !.lastApiCall = r.lastApiCall,
                            !.loadQ = r.loadQ, !.loadS = r.loadS])
    /\ [][\A w \in {"q", "s"}, ok \in BOOLEAN, d \in {<<>>, LB_Live} :
           LoadRespond(w, ok, d) =>
             IF (IF w = "q" THEN loadS ELSE loadQ) = "pending"
             THEN /\ UNCHANGED <<envVars, progVars, histVars>>
                  /\ UNCHANGED <<posts, refreshes, mountFetch>>
                  /\ LoadInFlight'
             ELSE Cur' = LoadOutcome(
                           IF w = "q" THEN ok ELSE loadQ = "fulfilled",
                           IF w = "s" THEN ok ELSE loadS = "fulfilled",
                           IF w = "s" THEN d ELSE loadSData)
       ]_vars

\* the load has settled with the leaderboard read succeeded and the
\* question read failed, a state both arrival orders lead to
C31_Witness ==
    /\ variant \in {"App", "P3"} /\ dataLoaded /\ ~isLoading /\ ~LoadInFlight
    /\ highScores = LB_Live /\ ~backendAvailable
    /\ questions \in {<<>>, FALLBACK_QUESTIONS}

(* ------------------------- after the confirmation --------------------- *)

\* C32: in part_000 and part_001, once hasRealUser is true the document
\* listeners are gone: no later step changes the event counter or the
\* movement and click witnesses, no document event is taken, and
\* detectUserInteraction returns at once, so that it starts no further load.
C32_ListenersGoneAfterConfirmation ==
    /\ []((HasDetect /\ hasRealUser) =>
            /\ interactionListeners = {}
            /\ detectUserInteraction(Cur) = Cur)
    /\ [][(HasDetect /\ hasRealUser) =>
            /\ hasRealUser'
            /\ UNCHANGED <<interactionCount, hasMouseMoved, hasClicked, keySeen,
                           accConfirmed, interactionListeners>>
            /\ \A type \in DocEventTypes, trusted \in BOOLEAN :
                  ~DocEvent(type, trusted)]_vars

\* part_001 after the accumulator confirmed on the third event: a fourth
\* event would still be counted if a listener were attached
C32_Witness ==
    /\ variant = "P1" /\ hasRealUser /\ accConfirmed
    /\ interactionCount = MIN_INTERACTIONS /\ interactionCount < MaxInteractions
    /\ interactionListeners = {} /\ (LoadInFlight \/ dataLoaded)

(* ------------------------- the flags are released --------------------- *)

\* C33: provided every request settles, isLoading once set by
\* loadInitialData is eventually false again, and isSubmitting once set by
\* calculateScore is eventually false again, whether the requests succeed
\* or fail and however they fail.
C33_FlagsReleased ==
    /\ isLoading ~> ~isLoading
    /\ isSubmitting ~> ~isSubmitting

\* a submission has failed for a transient cause after the load had
\* settled with the leaderboard read failed: both flags are down again
C33_Witness ==
    /\ variant # "P2" /\ dataLoaded /\ ~isLoading /\ ~LoadInFlight
    /\ backendAvailable /\ highScores = <<>>
    /\ message = M_SubmitFailed /\ ~isSubmitting /\ posts = <<>>

(* ---------------------- from the click to the data -------------------- *)

\* an environment the heuristic is meant to accept: no rejection word in
\* the user agent, the automation flag not set, no marker, a real window
AcceptedEnv == ~BotSignal(env) /\ env.viewport

\* the gate is unlocked
Unlocked ==
    CASE variant \in {"App", "P3"} -> quizStarted /\ hasRealUser
      [] variant \in {"P0", "P1"} -> hasRealUser
      [] variant = "P2" -> TRUE

\* C34 (its two statements about single states): in an accepted
\* environment with the honeypot empty, a click on Start unlocks the gate;
\* and no reachable state has the gate unlocked, no load in flight and
\* dataLoaded false.  (With requests that settle the load then ends, C33,
\* with dataLoaded true and isLoading false.)
C34_StartLeadsToData ==
    (HasGate /\ AcceptedEnv) =>
        /\ (mounted /\ startRendered /\ honeypot = <<>>) =>
               /\ startQuiz(Cur).hasRealUser
               /\ startQuiz(Cur).isLoading
        /\ (Unlocked /\ ~LoadInFlight) => dataLoaded /\ ~isLoading

\* the same in the variants and environments other than part_001 with the
\* automation flag reported as false
C34_StartLeadsToData_Elsewhere ==
    (variant = "P1" => env.webdriver = "undefined") => C34_StartLeadsToData

\* part_001 in a current browser driven by a person, mounted, the honeypot
\* empty and the Start button shown: the click changes nothing
C34_Witness ==
    /\ variant = "P1" /\ AcceptedEnv /\ env.webdriver = "false"
    /\ mounted /\ startRendered /\ honeypot = <<>> /\ userName = <<>>
    /\ startQuiz(Cur) = Cur /\ ~hasRealUser /\ NoRequest

(* --------------------------- one load a session ----------------------- *)

\* a load has been started in this session
LoadEver == LoadInFlight \/ dataLoaded

\* C35: loadInitialData contacts the backend at most once a session: it
\* issues its two GETs only when no load was ever started, a started load
\* stays started, and the load that settles leaves dataLoaded true whatever
\* its outcome, after which loadInitialData changes nothing.
C35_LoadAtMostOnce ==
    /\ []((HasGate /\ dataLoaded) =>
             loadInitialData(Cur) = Cur /\ ~LoadInFlight /\ ~isLoading)
    /\ [][/\ LoadStarts =>
                (~LoadEver /\ loadQ' = "pending" /\ loadS' = "pending")
          /\ (loadQ # "pending" /\ loadQ' = "pending") => LoadStarts
          /\ (loadS # "pending" /\ loadS' = "pending") => LoadStarts
          /\ LoadEver => LoadEver'
          /\ (LoadInFlight /\ ~LoadInFlight') => dataLoaded'
          /\ dataLoaded => dataLoaded']_vars

\* App.vue with the gate unlocked, the one load failed and the rate limit's
\* 10 s gone by: loadInitialData is called and issues nothing
C35_Witness ==
    /\ variant = "App" /\ quizStarted /\ hasRealUser
    /\ dataLoaded /\ ~backendAvailable /\ questions = <<>>
    /\ now - lastApiCall >= RATE_LIMIT_MS
    /\ loadInitialData(Cur) = Cur

(* ------------------------ what a POST is issued on -------------------- *)

\* a step that issues a submission POST, which is then the last in flight
PostIssued == Len(posts') > Len(posts)

\* the initial data is still being fetched (part_002 fetches it on mount)
InitialFetchInFlight == LoadInFlight \/ mountFetch \in {"questions", "scores"}

OnlyStaleReads == refreshes > 0 /\ freshReads = 0

\* C37: once a successful submission has installed the leaderboard of its
\* response, the answer to a leaderboard read issued before the submission
\* completed does not overwrite it.
C37_StaleReadDiscarded ==
    [][(HasGate /\ OnlyStaleReads /\ refreshes' < refreshes) =>
          highScores' = highScores]_vars

\* App.vue: the leaderboard of the POST response is installed while a manual
\* GET issued before it is still in flight, and its answer will replace it
C37_Witness ==
    /\ variant = "App" /\ OnlyStaleReads /\ posts = <<>>
    /\ score = <<1>> /\ highScores = LB_Post
    /\ refreshSucceeded(Cur, LB_Live).highScores # highScores

(* -------------------- input made during a submission ------------------ *)

\* C38: an answer selected or a name typed while a submission is in flight
\* is not discarded when the submission succeeds: the success clears only
\* answers that were sent as they are, and the name only if it is the one
\* that was sent.
C38_LateInputKept ==
    [][\A i \in 1..MaxInflight, hs \in PostHighScores :
         PostSucceed(i, 1, hs) =>
            LET sent == posts[i] IN
            /\ \A k \in DOMAIN userAnswers :
                  (k \notin DOMAIN sent.userAnswers
                     \/ sent.userAnswers[k] # userAnswers[k])
                  => (k \in DOMAIN userAnswers' /\ userAnswers'[k] = userAnswers[k])
            /\ trim(userName) # sent.name => userName' = userName]_vars

\* App.vue with a submission in flight, after which the user changed the
\* answer to the first question and typed another name
C38_Witness ==
    /\ variant = "App" /\ isSubmitting /\ Len(posts) = 1
    /\ DOMAIN userAnswers = DOMAIN posts[1].userAnswers
    /\ userAnswers[1] # posts[1].userAnswers[1]
    /\ Len(userName) = MIN_NAME_LEN - 1 /\ Len(posts[1].name) = MIN_NAME_LEN
    /\ submitSucceeded(Cur, 1, <<>>).userAnswers = NoAnswers
    /\ submitSucceeded(Cur, 1, <<>>).userName = <<>>

(* ----------------------- an attempt that fails ------------------------ *)

\* C39: a submission attempt that does not succeed leaves the name, the
\* answer map, the score, the questions and the leaderboard as they were
\* and isSubmitting false once it is over: a call of calculateScore that
\* issues no POST (blocked by the gate or rejected by a check) changes none
\* of them, and neither does the failure of the POST, which also resets
\* isSubmitting.
C39_FailedAttemptFrame ==
    /\ [](LET r == calculateScore(Cur) IN
           r.posts = posts =>
              /\ r.userName = userName /\ r.userAnswers = userAnswers
              /\ r.score = score /\ r.questions = questions
              /\ r.highScores = highScores /\ r.isSubmitting = isSubmitting)
    /\ [][\A i \in 1..MaxInflight, f \in Failures :
           PostFail(i, f) =>
              /\ UNCHANGED <<userName, userAnswers, score, questions, highScores>>
              /\ HasGate => ~isSubmitting']_vars

\* a POST has failed for a transient cause: the name as typed and the
\* answers are still in the form, and nothing is being submitted
C39_Witness ==
    /\ variant = "App" /\ message = M_SubmitFailed /\ score = NullScore
    /\ posts = <<>> /\ ~isSubmitting /\ backendAvailable
    /\ Len(userName) = MIN_NAME_LEN + 2 /\ Loaded = NumQ /\ Answered = NumQ

=============================================================================
